---- MODULE Spec2Model ----
(***************************************************************************)
(* Model of the Meltingplot Config plugin (dsf/config_manager.py,          *)
(* dsf/git_utils.py, dsf/meltingplot-config-daemon.py): the hunk-based     *)
(* patch engine, the path resolver, the protected-path guard, the branch   *)
(* resolution, the orchestrator, the backup repository and the statuses of *)
(* the HTTP handlers.                                                      *)
(*                                                                         *)
(* Texts are sequences of one-character strings; a line break is "\n".     *)
(* Indices of Python lists are 0-based and are kept 0-based here: At(s, i) *)
(* is s[i] of the source.                                                  *)
(***************************************************************************)
EXTENDS Integers, Sequences, FiniteSets, TLC

NL == "\n"

----------------------------------------------------------------------------
(* Python list and string primitives used by the source.                   *)

Max(x, y) == IF x >= y THEN x ELSE y
Min(x, y) == IF x <= y THEN x ELSE y

At(s, i) == s[i + 1]

\* s[lo:hi] of Python, negative indices counted from the end, both clamped.
Slice(s, lo, hi) ==
    LET n  == Len(s)
        l0 == IF lo < 0 THEN Max(n + lo, 0) ELSE Min(lo, n)
        h0 == IF hi < 0 THEN Max(n + hi, 0) ELSE Min(hi, n)
    IN  IF l0 >= h0 THEN <<>> ELSE SubSeq(s, l0 + 1, h0)

\* s[lo:] of Python.
SliceFrom(s, lo) ==
    LET n  == Len(s)
        l0 == IF lo < 0 THEN Max(n + lo, 0) ELSE Min(lo, n)
    IN  IF l0 >= n THEN <<>> ELSE SubSeq(s, l0 + 1, n)

\* s[:hi] of Python.
SliceTo(s, hi) == Slice(s, 0, hi)

\* s.startswith(p)
startswith(s, p) == Len(s) >= Len(p) /\ SubSeq(s, 1, Len(p)) = p

RECURSIVE rstrip_nl(_)
\* s.rstrip("\n"): every trailing line break is removed.
rstrip_nl(s) ==
    IF s # <<>> /\ s[Len(s)] = NL THEN rstrip_nl(SubSeq(s, 1, Len(s) - 1)) ELSE s

RECURSIVE FirstNL(_, _)
\* 1-based position of the first line break of s at or after position k, 0 if none.
FirstNL(s, k) ==
    IF k > Len(s) THEN 0 ELSE IF s[k] = NL THEN k ELSE FirstNL(s, k + 1)

RECURSIVE splitlines(_)
\* s.splitlines(keepends=True) for LF-terminated text: every line keeps its
\* "\n"; only the last line may lack one.
splitlines(s) ==
    IF s = <<>> THEN <<>>
    ELSE LET k == FirstNL(s, 1)
         IN  IF k = 0 THEN <<s>>
             ELSE <<SubSeq(s, 1, k)>> \o splitlines(SubSeq(s, k + 1, Len(s)))

RECURSIVE join(_)
\* "".join(lines)
join(lines) == IF lines = <<>> THEN <<>> ELSE Head(lines) \o join(Tail(lines))

\* [l.rstrip("\n") for l in s]
rstrip_all(s) == [i \in 1..Len(s) |-> rstrip_nl(s[i])]

Digits == <<"0", "1", "2", "3", "4", "5", "6", "7", "8", "9">>

RECURSIVE FormatInt(_)
\* '{}'.format(n) for n >= 0
FormatInt(n) ==
    IF n < 10 THEN <<Digits[n + 1]>> ELSE FormatInt(n \div 10) \o <<Digits[(n % 10) + 1]>>

IsDigit(c) == \E d \in 1..10 : Digits[d] = c
DigitVal(c) == (CHOOSE d \in 1..10 : Digits[d] = c) - 1

RECURSIVE ParseInt(_)
\* int(s) for a non-empty string of digits
ParseInt(s) ==
    IF Len(s) = 1 THEN DigitVal(s[1])
    ELSE ParseInt(SubSeq(s, 1, Len(s) - 1)) * 10 + DigitVal(s[Len(s)])

RECURSIVE DigitRun(_, _)
\* number of consecutive digits of s from 1-based position k: the match of \d*
DigitRun(s, k) ==
    IF k <= Len(s) /\ IsDigit(s[k]) THEN 1 + DigitRun(s, k + 1) ELSE 0

----------------------------------------------------------------------------
(* difflib.SequenceMatcher(None, a, b) and difflib.unified_diff, as used   *)
(* by _compute_hunks.  a and b are lists of lines.  The autojunk heuristic *)
(* needs 200 or more lines and does not act on the texts modelled here.    *)

RECURSIVE MatchLen(_, _, _, _, _, _)
\* length of the common run of a[i:ahi] and b[j:bhi]
MatchLen(a, b, i, j, ahi, bhi) ==
    IF i < ahi /\ j < bhi /\ At(a, i) = At(b, j)
    THEN 1 + MatchLen(a, b, i + 1, j + 1, ahi, bhi)
    ELSE 0

\* SequenceMatcher.find_longest_match: the longest matching block of
\* a[alo:ahi] and b[blo:bhi]; of the longest ones the one that starts
\* earliest in a, and of those the one that starts earliest in b.
find_longest_match(a, b, alo, ahi, blo, bhi) ==
    LET I     == alo..(ahi - 1)
        J     == blo..(bhi - 1)
        size  == [i \in I, j \in J |-> MatchLen(a, b, i, j, ahi, bhi)]
        best  == CHOOSE k \in 0..(ahi - alo) :
                     /\ \A i \in I, j \in J : size[i, j] <= k
                     /\ (k = 0 \/ \E i \in I, j \in J : size[i, j] = k)
        besti == CHOOSE i \in I :
                     /\ \E j \in J : size[i, j] = best
                     /\ \A i2 \in I : (\E j \in J : size[i2, j] = best) => i <= i2
        bestj == CHOOSE j \in J :
                     /\ size[besti, j] = best
                     /\ \A j2 \in J : size[besti, j2] = best => j <= j2
    IN  IF best = 0 THEN [i |-> alo, j |-> blo, size |-> 0]
        ELSE [i |-> besti, j |-> bestj, size |-> best]

RECURSIVE matching_blocks(_, _, _, _, _, _)
\* the recursion of get_matching_blocks over its queue, in sorted order
matching_blocks(a, b, alo, ahi, blo, bhi) ==
    IF ~(alo < ahi /\ blo < bhi) THEN <<>>
    ELSE LET m == find_longest_match(a, b, alo, ahi, blo, bhi)
         IN  IF m.size = 0 THEN <<>>
             ELSE matching_blocks(a, b, alo, m.i, blo, m.j)
                  \o <<m>>
                  \o matching_blocks(a, b, m.i + m.size, ahi, m.j + m.size, bhi)

RECURSIVE collapse_adjacent(_, _)
\* get_matching_blocks: adjacent equal blocks are merged into one
collapse_adjacent(cur, rest) ==
    IF rest = <<>> THEN (IF cur.size > 0 THEN <<cur>> ELSE <<>>)
    ELSE LET nxt == Head(rest)
         IN  IF cur.i + cur.size = nxt.i /\ cur.j + cur.size = nxt.j
             THEN collapse_adjacent([cur EXCEPT !.size = cur.size + nxt.size], Tail(rest))
             ELSE (IF cur.size > 0 THEN <<cur>> ELSE <<>>)
                  \o collapse_adjacent(nxt, Tail(rest))

\* SequenceMatcher.get_matching_blocks, with its (la, lb, 0) sentinel
get_matching_blocks(a, b) ==
    collapse_adjacent([i |-> 0, j |-> 0, size |-> 0],
                      matching_blocks(a, b, 0, Len(a), 0, Len(b)))
    \o <<[i |-> Len(a), j |-> Len(b), size |-> 0]>>

RECURSIVE opcodes_from(_, _, _)
\* SequenceMatcher.get_opcodes: the loop over the matching blocks
opcodes_from(blocks, i, j) ==
    IF blocks = <<>> THEN <<>>
    ELSE LET m   == Head(blocks)
             tag == IF i < m.i /\ j < m.j THEN "replace"
                    ELSE IF i < m.i THEN "delete"
                    ELSE IF j < m.j THEN "insert"
                    ELSE ""
             chg == IF tag # ""
                    THEN <<[tag |-> tag, i1 |-> i, i2 |-> m.i, j1 |-> j, j2 |-> m.j]>>
                    ELSE <<>>
             eq  == IF m.size > 0
                    THEN <<[tag |-> "equal", i1 |-> m.i, i2 |-> m.i + m.size,
                            j1 |-> m.j, j2 |-> m.j + m.size]>>
                    ELSE <<>>
         IN  chg \o eq \o opcodes_from(Tail(blocks), m.i + m.size, m.j + m.size)

get_opcodes(a, b) == opcodes_from(get_matching_blocks(a, b), 0, 0)

RECURSIVE group_loop(_, _, _)
\* SequenceMatcher.get_grouped_opcodes: the loop that ends a group at every
\* equal range longer than 2n
group_loop(codes, group, n) ==
    IF codes = <<>>
    THEN (IF group # <<>> /\ ~(Len(group) = 1 /\ group[1].tag = "equal")
          THEN <<group>> ELSE <<>>)
    ELSE LET c == Head(codes)
         IN  IF c.tag = "equal" /\ c.i2 - c.i1 > n + n
             THEN <<Append(group, [c EXCEPT !.i2 = Min(c.i2, c.i1 + n),
                                            !.j2 = Min(c.j2, c.j1 + n)])>>
                  \o group_loop(Tail(codes),
                                <<[c EXCEPT !.i1 = Max(c.i1, c.i2 - n),
                                            !.j1 = Max(c.j1, c.j2 - n)]>>, n)
             ELSE group_loop(Tail(codes), Append(group, c), n)

\* get_grouped_opcodes: "if not codes: codes = [("equal", 0, 1, 0, 1)]"
default_codes(codes) ==
    IF codes = <<>>
    THEN <<[tag |-> "equal", i1 |-> 0, i2 |-> 1, j1 |-> 0, j2 |-> 1]>>
    ELSE codes

\* get_grouped_opcodes: fixup of a leading group that shows no changes
fixup_leading(codes, n) ==
    LET f == codes[1]
    IN  IF f.tag = "equal"
        THEN [codes EXCEPT ![1] = [f EXCEPT !.i1 = Max(f.i1, f.i2 - n),
                                            !.j1 = Max(f.j1, f.j2 - n)]]
        ELSE codes

\* get_grouped_opcodes: fixup of a trailing group that shows no changes
fixup_trailing(codes, n) ==
    LET l == codes[Len(codes)]
    IN  IF l.tag = "equal"
        THEN [codes EXCEPT ![Len(codes)] = [l EXCEPT !.i2 = Min(l.i2, l.i1 + n),
                                                     !.j2 = Min(l.j2, l.j1 + n)]]
        ELSE codes

get_grouped_opcodes(a, b, n) ==
    group_loop(fixup_trailing(fixup_leading(default_codes(get_opcodes(a, b)), n), n),
               <<>>, n)

\* difflib._format_range_unified
format_range_unified(start, stop) ==
    LET beginning == start + 1
        length    == stop - start
    IN  IF length = 1 THEN FormatInt(beginning)
        ELSE FormatInt(IF length = 0 THEN beginning - 1 ELSE beginning)
             \o <<",">> \o FormatInt(length)

\* the diff lines of one opcode: ' ' + line, '-' + line, '+' + line
opcode_lines(a, b, c) ==
    IF c.tag = "equal"
    THEN [k \in 1..(c.i2 - c.i1) |-> <<" ">> \o At(a, c.i1 + k - 1)]
    ELSE (IF c.tag \in {"replace", "delete"}
          THEN [k \in 1..(c.i2 - c.i1) |-> <<"-">> \o At(a, c.i1 + k - 1)]
          ELSE <<>>)
         \o
         (IF c.tag \in {"replace", "insert"}
          THEN [k \in 1..(c.j2 - c.j1) |-> <<"+">> \o At(b, c.j1 + k - 1)]
          ELSE <<>>)

RECURSIVE group_lines(_, _, _)
group_lines(a, b, group) ==
    IF group = <<>> THEN <<>>
    ELSE opcode_lines(a, b, Head(group)) \o group_lines(a, b, Tail(group))

RECURSIVE groups_lines(_, _, _)
\* the '@@ -r1 +r2 @@' line of each group followed by its lines
groups_lines(a, b, groups) ==
    IF groups = <<>> THEN <<>>
    ELSE LET g     == Head(groups)
             first == g[1]
             last  == g[Len(g)]
             hdr   == <<"@", "@", " ", "-">> \o format_range_unified(first.i1, last.i2)
                      \o <<" ", "+">> \o format_range_unified(first.j1, last.j2)
                      \o <<" ", "@", "@", NL>>
         IN  <<hdr>> \o group_lines(a, b, g) \o groups_lines(a, b, Tail(groups))

\* difflib.unified_diff(a, b, fromfile, tofile, n): the two file lines
\* '--- a/<path>' and '+++ b/<path>' precede the first group.
unified_diff(a, b, n) ==
    LET groups == get_grouped_opcodes(a, b, n)
    IN  IF groups = <<>> THEN <<>>
        ELSE << <<"-", "-", "-", " ", "a", "/", "p", NL>>,
                <<"+", "+", "+", " ", "b", "/", "p", NL>> >>
             \o groups_lines(a, b, groups)

----------------------------------------------------------------------------
(* The patch engine of config_manager.py.                                  *)

\* Context size of the unified diff (n=3 in _compute_hunks).
ContextLines == 3

NoParse == [ok |-> FALSE, old_start |-> 0, old_count |-> 0, new_start |-> 0, new_count |-> 0]

\* One range of _HUNK_HEADER_RE at 1-based position k: (\d+)(?:,(\d+))?
\* The count is 1 when the optional group did not take part in the match.
ParseRange(s, k) ==
    LET d1 == DigitRun(s, k)
        k1 == k + d1
        d2 == IF k1 <= Len(s) /\ s[k1] = "," THEN DigitRun(s, k1 + 1) ELSE 0
    IN  IF d1 = 0 THEN [ok |-> FALSE, start |-> 0, count |-> 0, next |-> k]
        ELSE [ok    |-> TRUE,
              start |-> ParseInt(SubSeq(s, k, k1 - 1)),
              count |-> IF d2 > 0 THEN ParseInt(SubSeq(s, k1 + 1, k1 + d2)) ELSE 1,
              next  |-> IF d2 > 0 THEN k1 + 1 + d2 ELSE k1]

\* _parse_hunk_header: ^@@ -(\d+)(?:,(\d+))? \+(\d+)(?:,(\d+))? @@
parse_hunk_header(header) ==
    IF ~startswith(header, <<"@", "@", " ", "-">>) THEN NoParse
    ELSE LET r1 == ParseRange(header, 5)
         IN  IF ~r1.ok THEN NoParse
             ELSE IF ~startswith(SliceFrom(header, r1.next - 1), <<" ", "+">>) THEN NoParse
             ELSE LET r2 == ParseRange(header, r1.next + 2)
                  IN  IF ~r2.ok THEN NoParse
                      ELSE IF ~startswith(SliceFrom(header, r2.next - 1), <<" ", "@", "@">>)
                      THEN NoParse
                      ELSE [ok |-> TRUE, old_start |-> r1.start, old_count |-> r1.count,
                            new_start |-> r2.start, new_count |-> r2.count]

\* _hunk_summary: "Line N" or "Lines N-M" from the old-side range
hunk_summary(header) ==
    LET parsed == parse_hunk_header(header)
        start  == parsed.old_start
        end    == start + parsed.old_count - 1
    IN  IF ~parsed.ok THEN <<>>
        ELSE IF start = end THEN <<"L", "i", "n", "e", " ">> \o FormatInt(start)
        ELSE <<"L", "i", "n", "e", "s", " ">> \o FormatInt(start) \o <<"-">>
             \o (IF end >= 0 THEN FormatInt(end) ELSE <<"-">> \o FormatInt(0 - end))

RECURSIVE compute_loop(_, _, _)
\* the loop of _compute_hunks over the diff lines; cur is the current hunk
\* (<<>> while there is none)
compute_loop(diff_lines, hunks, cur) ==
    IF diff_lines = <<>>
    THEN (IF cur # <<>>
          THEN Append(hunks, [cur[1] EXCEPT !.summary = hunk_summary(cur[1].header)])
          ELSE hunks)
    ELSE LET line == Head(diff_lines)
             done == IF cur # <<>>
                     THEN Append(hunks, [cur[1] EXCEPT !.summary = hunk_summary(cur[1].header)])
                     ELSE hunks
         IN  IF startswith(line, <<"@", "@">>)
             THEN compute_loop(Tail(diff_lines), done,
                               <<[index   |-> Len(done),
                                  header  |-> rstrip_nl(line),
                                  lines   |-> <<>>,
                                  summary |-> <<>>]>>)
             ELSE IF cur # <<>>
             THEN compute_loop(Tail(diff_lines), hunks,
                               <<[cur[1] EXCEPT !.lines = Append(@, rstrip_nl(line))]>>)
             ELSE compute_loop(Tail(diff_lines), hunks, cur)

\* _compute_hunks with the two contents exchanged: the hunks that lead from
\* the reference to the current content
compute_hunks_swapped(current_content, reference_content) ==
    compute_loop(unified_diff(splitlines(reference_content),
                              splitlines(current_content), ContextLines),
                 <<>>, <<>>)

\* ConfigManager._compute_hunks(ref_path, current_content, reference_content)
compute_hunks(current_content, reference_content) ==
    compute_loop(unified_diff(splitlines(current_content),
                              splitlines(reference_content), ContextLines),
                 <<>>, <<>>)

RECURSIVE old_of(_)
\* the expected old lines of a hunk: removed and context lines, and the
\* lines that carry no prefix
old_of(hl) ==
    IF hl = <<>> THEN <<>>
    ELSE LET line == Head(hl)
         IN  (IF startswith(line, <<"-">>) THEN <<Tail(line)>>
              ELSE IF startswith(line, <<"+">>) THEN <<>>
              ELSE IF startswith(line, <<" ">>) THEN <<Tail(line)>>
              ELSE <<line>>)
             \o old_of(Tail(hl))

RECURSIVE new_of(_)
\* the desired new lines of a hunk: added and context lines, and the lines
\* that carry no prefix
new_of(hl) ==
    IF hl = <<>> THEN <<>>
    ELSE LET line == Head(hl)
         IN  (IF startswith(line, <<"-">>) THEN <<>>
              ELSE IF startswith(line, <<"+">>) THEN <<Tail(line)>>
              ELSE IF startswith(line, <<" ">>) THEN <<Tail(line)>>
              ELSE <<line>>)
             \o new_of(Tail(hl))

\* context_matches with the comparison of the lines left out: only the range
\* check remains
context_matches_nocompare(lines, start, old_lines) ==
    ~(start + Len(old_lines) > Len(lines))

\* _apply_single_hunk, "Verify context matches": the expected old lines lie
\* inside the buffer and equal lines[start:end], line breaks stripped
context_matches(lines, start, old_lines) ==
    LET end      == start + Len(old_lines)
        actual   == rstrip_all(Slice(lines, start, end))
        expected == rstrip_all(old_lines)
    IN  ~(end > Len(lines)) /\ actual = expected

\* _apply_single_hunk(lines, hunk, offset) -> (success, new_lines, new_offset)
apply_single_hunk(lines, hunk, offset) ==
    LET parsed    == parse_hunk_header(hunk.header)
        start     == parsed.old_start - 1 + offset
        old_lines == old_of(hunk.lines)
        new_lines == new_of(hunk.lines)
        end       == start + Len(old_lines)
        failed    == [success |-> FALSE, lines |-> lines, offset |-> offset]
    IN  IF ~parsed.ok THEN failed
        ELSE IF ~context_matches(lines, start, old_lines) THEN failed
        ELSE [success |-> TRUE,
              lines   |-> SliceTo(lines, start)
                          \o [k \in 1..Len(new_lines) |-> new_lines[k] \o <<NL>>]
                          \o SliceFrom(lines, end),
              offset  |-> offset + Len(new_lines) - Len(old_lines)]

----------------------------------------------------------------------------
(* Paths.  A path is the sequence of its segments: "sys/config.g" is       *)
(* <<"sys", "config.g">>, a doubled slash leaves an empty segment, and a   *)
(* prefix such as "sys/" is the segment sequence <<"sys">> followed by at   *)
(* least one more segment.  File system paths are absolute.                *)

NoPath == <<>>
NoContent == <<"None">>
NoWorktree == <<"None">>
NoExc == <<>>

\* s.startswith(prefix + "/")
HasPrefix(p, pre) == Len(p) > Len(pre) /\ SubSeq(p, 1, Len(pre)) = pre

\* the first position of a dict or list in iteration order
First(S) == CHOOSE k \in S : \A j \in S : k <= j

\* os.path.dirname
dirname(p) == SubSeq(p, 1, Len(p) - 1)

\* the directories os.makedirs(os.path.dirname(p)) makes sure of
Ancestors(p) == {SubSeq(p, 1, n) : n \in 1..(Len(p) - 1)}

RECURSIVE path_str(_)
\* the path as text inside an f-string: segments joined by "/"
path_str(p) == IF Len(p) <= 1 THEN p ELSE <<Head(p), "/">> \o path_str(Tail(p))

BACKUP_INCLUDED_DIRS == << <<"sys">>, <<"macros">>, <<"filaments">> >>

PROTECTED_FILES ==
    { <<"sys", "meltingplot", "machine-override">>,
      <<"sys", "meltingplot", "dsf-config-override.g">> }

DirNames == <<"sys", "macros", "filaments", "firmware", "gcodes", "menu", "www">>

DEFAULT_DIRECTORY_MAP ==
    [k \in DOMAIN DirNames |->
        [ref_prefix |-> <<DirNames[k]>>, printer_prefix |-> <<"0:", DirNames[k]>>]]

DEFAULT_RESOLVED_DIRS ==
    [k \in DOMAIN DirNames |->
        [printer_prefix |-> <<"0:", DirNames[k]>>,
         fs_prefix      |-> <<"opt", "dsf", "sd", DirNames[k]>>]]

\* is_protected: exact match of the reference path
is_protected(ref_path) == ref_path \in PROTECTED_FILES

\* ConfigManager._ref_to_printer_path
ref_to_printer_path(dir_map, ref_path) ==
    LET hits == {k \in DOMAIN dir_map : HasPrefix(ref_path, dir_map[k].ref_prefix)}
    IN  IF hits = {} THEN NoPath
        ELSE dir_map[First(hits)].printer_prefix
             \o SliceFrom(ref_path, Len(dir_map[First(hits)].ref_prefix))

\* ConfigManager._printer_to_fs_path
printer_to_fs_path(resolved_dirs, printer_path) ==
    LET hits == {k \in DOMAIN resolved_dirs :
                    HasPrefix(printer_path, resolved_dirs[k].printer_prefix)}
    IN  IF hits = {} THEN NoPath
        ELSE resolved_dirs[First(hits)].fs_prefix
             \o SliceFrom(printer_path, Len(resolved_dirs[First(hits)].printer_prefix))

\* self._dir_map.get(ref_prefix)
dir_map_get(dir_map, ref_prefix) ==
    LET hits == {k \in DOMAIN dir_map : dir_map[k].ref_prefix = ref_prefix}
    IN  IF hits = {} THEN NoPath ELSE dir_map[First(hits)].printer_prefix

\* self._resolved_dirs.get(printer_path)
resolved_dirs_get(resolved_dirs, printer_prefix) ==
    LET hits == {k \in DOMAIN resolved_dirs : resolved_dirs[k].printer_prefix = printer_prefix}
    IN  IF hits = {} THEN NoPath ELSE resolved_dirs[First(hits)].fs_prefix

RECURSIVE backup_fs_paths(_, _, _)
\* _compute_backup_worktree: the resolved directories of BACKUP_INCLUDED_DIRS
\* from position k on
backup_fs_paths(dir_map, resolved_dirs, k) ==
    IF k > Len(BACKUP_INCLUDED_DIRS) THEN <<>>
    ELSE LET printer_path == dir_map_get(dir_map, BACKUP_INCLUDED_DIRS[k])
             fs_path == IF printer_path = NoPath THEN NoPath
                        ELSE resolved_dirs_get(resolved_dirs, printer_path)
         IN  (IF fs_path = NoPath THEN <<>> ELSE <<fs_path>>)
             \o backup_fs_paths(dir_map, resolved_dirs, k + 1)

\* os.path.commonpath of a set of absolute paths: the longest common prefix
commonpath(paths) ==
    LET common(n) == \A p \in paths, q \in paths :
                        n <= Len(p) /\ n <= Len(q) /\ SubSeq(p, 1, n) = SubSeq(q, 1, n)
        p0 == CHOOSE p \in paths : TRUE
        n0 == CHOOSE n \in 0..Len(p0) : common(n) /\ \A m \in 0..Len(p0) : common(m) => m <= n
    IN  SubSeq(p0, 1, n0)

\* ConfigManager._compute_backup_worktree -> (worktree_root, relative names)
compute_backup_worktree(dir_map, resolved_dirs) ==
    LET fs_paths == backup_fs_paths(dir_map, resolved_dirs, 1)
        common   == commonpath({dirname(fs_paths[k]) : k \in DOMAIN fs_paths})
    IN  IF fs_paths = <<>> THEN [worktree |-> NoWorktree, backup_paths |-> <<>>]
        ELSE [worktree     |-> common,
              backup_paths |-> [k \in DOMAIN fs_paths |-> SliceFrom(fs_paths[k], Len(common))]]

\* ConfigManager.__init__
ConfigManager(directory_map, resolved_dirs) ==
    LET made == compute_backup_worktree(directory_map, resolved_dirs)
    IN  [dir_map       |-> directory_map,
         resolved_dirs |-> resolved_dirs,
         worktree      |-> made.worktree,
         backup_paths  |-> made.backup_paths]

----------------------------------------------------------------------------
(* The file system: the files with their content and the directories.      *)

RECURSIVE walk(_, _)
\* the path walked segment by segment from the directory at: an empty
\* segment and "." stay in the directory, ".." goes to its parent (the
\* directories climbed from exist in every path walked here)
walk(p, at) ==
    IF p = <<>> THEN at
    ELSE IF Head(p) \in {"", "."} THEN walk(Tail(p), at)
    ELSE IF Head(p) = ".."
    THEN walk(Tail(p), IF at = <<>> THEN <<>> ELSE SubSeq(at, 1, Len(at) - 1))
    ELSE walk(Tail(p), Append(at, Head(p)))

\* the entry the operating system reaches for a path
realpath(p) == walk(p, <<>>)

\* a path whose last segment is a name can be opened as a file
names_file(p) == p # <<>> /\ p[Len(p)] \notin {"", ".", ".."}

\* os.path.isdir
isdir(fs, p) == realpath(p) \in fs.dirs

\* open(p, "r").read(), NoContent when the open fails
open_read(fs, p) ==
    IF names_file(p) /\ realpath(p) \in DOMAIN fs.files
    THEN fs.files[realpath(p)] ELSE NoContent

\* os.makedirs(dirname) and open(p, "w") succeed
can_write(fs, p) ==
    /\ names_file(p)
    /\ realpath(p) \notin fs.dirs
    /\ Ancestors(realpath(p)) \cap DOMAIN fs.files = {}

\* os.makedirs(os.path.dirname(p), exist_ok=True); open(p, "w").write(content)
open_write(fs, p, content) ==
    [files |-> [q \in DOMAIN fs.files \cup {realpath(p)} |->
                    IF q = realpath(p) THEN content ELSE fs.files[q]],
     dirs  |-> fs.dirs \cup Ancestors(realpath(p))]

\* ConfigManager._read_printer_file
read_printer_file(cfg, fs, printer_path) ==
    LET fs_path == printer_to_fs_path(cfg.resolved_dirs, printer_path)
    IN  IF fs_path = NoPath THEN NoContent ELSE open_read(fs, fs_path)

\* ConfigManager._read_reference_file: the reference checkout holds the
\* tracked files ref.files, keyed by their path below REFERENCE_DIR
read_reference_file(ref, rel_path) ==
    IF names_file(rel_path) /\ realpath(rel_path) \in DOMAIN ref.files
    THEN ref.files[realpath(rel_path)] ELSE NoContent

----------------------------------------------------------------------------
(* The backup repository of git_utils.py: the commits reachable from HEAD, *)
(* oldest first, the index, the next unused commit hash, and whether a     *)
(* stopped rebase is still in progress.  A tree maps paths relative to the *)
(* worktree to file contents; the worktree is the printer's file system.   *)

EmptyTree == [r \in {} |-> NoContent]

EmptyRepo == [commits |-> <<>>, index |-> EmptyTree, next |-> 1, rebasing |-> FALSE]

\* the tree of HEAD
head_tree(repo) ==
    IF repo.commits = <<>> THEN EmptyTree ELSE repo.commits[Len(repo.commits)].tree

\* the entry of a tree, NoContent where the tree has none
tree_at(tree, r) == IF r \in DOMAIN tree THEN tree[r] ELSE NoContent

\* git rev-parse: the position of the commit with this hash, 0 if unknown
commit_pos(repo, commit_hash) ==
    LET hits == {k \in DOMAIN repo.commits : repo.commits[k].hash = commit_hash}
    IN  IF hits = {} THEN 0 ELSE First(hits)

\* the files of the worktree, by their path relative to it
worktree_files(fs, worktree) ==
    {SliceFrom(f, Len(worktree)) : f \in {g \in DOMAIN fs.files : HasPrefix(g, worktree)}}

\* git add -A -- paths: the index entries below the paths become what the
\* worktree holds, the other entries stay
git_add(index, worktree, fs, paths) ==
    LET below(r) == \E k \in DOMAIN paths : HasPrefix(r, paths[k])
        staged   == {r \in worktree_files(fs, worktree) : below(r)}
        kept     == {r \in DOMAIN index : ~below(r)}
    IN  [r \in staged \cup kept |->
            IF r \in staged THEN fs.files[worktree \o r] ELSE index[r]]

\* backup_commit(backup_path, message, paths, force)
backup_commit(repo, worktree, fs, message, paths, force) ==
    LET index == git_add(repo.index, worktree, fs, paths)
    IN  IF index = head_tree(repo) /\ ~force
        THEN [repo EXCEPT !.index = index]
        ELSE [repo EXCEPT !.index = index,
                          !.commits = Append(@, [hash    |-> repo.next,
                                                 message |-> message,
                                                 tree    |-> index]),
                          !.next = @ + 1]

\* git writes the entries of writes into the worktree and removes the files
\* of removes; a directory left empty by a removal goes with it
worktree_set(fs, worktree, writes, removes) ==
    LET files == [f \in (DOMAIN fs.files \ {worktree \o r : r \in removes})
                        \cup {worktree \o r : r \in DOMAIN writes} |->
                    IF SliceFrom(f, Len(worktree)) \in DOMAIN writes /\ HasPrefix(f, worktree)
                    THEN writes[SliceFrom(f, Len(worktree))] ELSE fs.files[f]]
        left  == UNION {Ancestors(worktree \o r) : r \in removes}
        gone  == {d \in left :
                    /\ Len(d) > Len(worktree)
                    /\ \A f \in DOMAIN files : ~HasPrefix(f, d)
                    /\ \A e \in fs.dirs : HasPrefix(e, d) => e \in left}
    IN  [files |-> files,
         dirs  |-> (fs.dirs \ gone) \cup UNION {Ancestors(worktree \o r) : r \in DOMAIN writes}]

\* backup_files_at: git ls-tree -r --name-only
backup_files_at(repo, commit_hash) ==
    DOMAIN repo.commits[commit_pos(repo, commit_hash)].tree

\* a checkout that writes the files the worktree lacks and leaves the ones
\* that are there
backup_checkout_missing_only(repo, fs, worktree, commit_hash) ==
    LET tree == repo.commits[commit_pos(repo, commit_hash)].tree
        lacks == {r \in DOMAIN tree : open_read(fs, worktree \o r) = NoContent}
    IN  [repo |-> repo,
         fs   |-> worktree_set(fs, worktree, [r \in lacks |-> tree[r]], {}),
         exc  |-> NoExc]

\* backup_checkout: git checkout <hash> -- .  overlays the files of the
\* commit on the index and on the worktree
backup_checkout(repo, fs, worktree, commit_hash) ==
    LET tree == repo.commits[commit_pos(repo, commit_hash)].tree
    IN  IF DOMAIN tree = {}
        THEN [repo |-> repo, fs |-> fs, exc |-> <<"git checkout failed">>]
        ELSE [repo |-> [repo EXCEPT !.index =
                            [r \in DOMAIN repo.index \cup DOMAIN tree |->
                                IF r \in DOMAIN tree THEN tree[r] ELSE repo.index[r]]],
              fs   |-> worktree_set(fs, worktree, tree, {}),
              exc  |-> NoExc]

\* one path of the three-way merge of a replayed commit: base is the parent
\* the commit had, ours the new parent, theirs the commit; with -X theirs a
\* change on both sides takes theirs
merge_entry(b, o, t) ==
    IF o = t THEN o ELSE IF o = b THEN t ELSE IF t = b THEN o
    ELSE IF o = NoContent THEN t ELSE IF t = NoContent THEN o ELSE t

\* a file changed on one side and deleted on the other: -X theirs does not
\* settle it and the rebase stops
merge_conflict(b, o, t) ==
    o # t /\ o # b /\ t # b /\ (o = NoContent \/ t = NoContent)

merge_trees(base, ours, theirs) ==
    LET all == DOMAIN base \cup DOMAIN ours \cup DOMAIN theirs
        val(r) == merge_entry(tree_at(base, r), tree_at(ours, r), tree_at(theirs, r))
    IN  [r \in {q \in all : val(q) # NoContent} |-> val(r)]

has_conflict(base, ours, theirs) ==
    \E r \in DOMAIN base \cup DOMAIN ours \cup DOMAIN theirs :
        merge_conflict(tree_at(base, r), tree_at(ours, r), tree_at(theirs, r))

RECURSIVE replay(_, _, _, _, _)
\* git rebase replays commits[j..] onto chain; a commit that became empty is
\* dropped, one that was empty from the start is kept; an untracked file in
\* the way of a new file, or a conflict, stops the rebase where it is
replay(commits, j, chain, next, untracked) ==
    IF j > Len(commits)
    THEN [commits |-> chain, next |-> next, stopped |-> FALSE, tree |-> chain[Len(chain)].tree]
    ELSE LET base   == commits[j - 1].tree
             ours   == chain[Len(chain)].tree
             theirs == commits[j].tree
             merged == merge_trees(base, ours, theirs)
         IN  IF (DOMAIN merged \ DOMAIN ours) \cap untracked # {}
             THEN [commits |-> chain, next |-> next, stopped |-> TRUE, tree |-> ours]
             ELSE IF has_conflict(base, ours, theirs)
             THEN [commits |-> chain, next |-> next, stopped |-> TRUE, tree |-> merged]
             ELSE IF merged = ours /\ base # theirs
             THEN replay(commits, j + 1, chain, next, untracked)
             ELSE replay(commits, j + 1,
                         Append(chain, [hash    |-> next,
                                        message |-> commits[j].message,
                                        tree    |-> merged]),
                         next + 1, untracked)

\* a reset that goes back two commits where it can
git_reset_hard_twice(repo, fs, worktree) ==
    LET n      == Len(repo.commits)
        m      == IF n > 2 THEN n - 2 ELSE 0
        target == IF m = 0 THEN EmptyTree ELSE repo.commits[m].tree
    IN  [repo |-> [repo EXCEPT !.commits = SubSeq(@, 1, m), !.index = target],
         fs   |-> fs,
         exc  |-> NoExc]

\* git reset --hard HEAD~1
git_reset_hard(repo, fs, worktree) ==
    LET n      == Len(repo.commits)
        target == repo.commits[n - 1].tree
    IN  [repo |-> [repo EXCEPT !.commits = SubSeq(@, 1, n - 1), !.index = target],
         fs   |-> worktree_set(fs, worktree, target, DOMAIN repo.index \ DOMAIN target),
         exc  |-> NoExc]

\* git rebase --onto <hash>^ <hash> -X theirs, for the commit at position k
git_rebase(repo, fs, worktree, k) ==
    LET tip       == head_tree(repo)
        onto      == repo.commits[k - 1].tree
        untracked == worktree_files(fs, worktree) \ DOMAIN repo.index
        clean     == /\ repo.index = tip
                     /\ \A r \in DOMAIN repo.index :
                            open_read(fs, worktree \o r) = repo.index[r]
        out       == replay(repo.commits, k + 1, SubSeq(repo.commits, 1, k - 1),
                            repo.next, untracked)
    IN  IF repo.rebasing \/ ~clean \/ DOMAIN onto \cap untracked # {}
        THEN [repo |-> repo, fs |-> fs, exc |-> <<"git rebase failed">>]
        ELSE [repo |-> [commits  |-> out.commits,
                        index    |-> out.tree,
                        next     |-> out.next,
                        rebasing |-> out.stopped],
              fs   |-> worktree_set(fs, worktree, out.tree, DOMAIN tip \ DOMAIN out.tree),
              exc  |-> IF out.stopped THEN <<"git rebase failed">> ELSE NoExc]

\* backup_delete without its two refusals: git reset --hard HEAD~1 on the
\* head, whatever lies below it, and nothing at all on a commit without parent
backup_delete_unchecked(repo, fs, worktree, commit_hash) ==
    IF repo.commits = <<>>
    THEN [repo |-> repo, fs |-> fs, exc |-> <<"git rev-parse failed">>]
    ELSE IF repo.commits[Len(repo.commits)].hash = commit_hash
    THEN (IF Len(repo.commits) = 1
          THEN [repo |-> [repo EXCEPT !.commits = <<>>], fs |-> fs, exc |-> NoExc]
          ELSE git_reset_hard(repo, fs, worktree))
    ELSE IF commit_pos(repo, commit_hash) <= 1
    THEN [repo |-> repo, fs |-> fs, exc |-> NoExc]
    ELSE git_rebase(repo, fs, worktree, commit_pos(repo, commit_hash))

\* backup_delete(backup_path, commit_hash)
backup_delete(repo, fs, worktree, commit_hash) ==
    LET head       == repo.commits[Len(repo.commits)].hash
        has_parent == commit_pos(repo, commit_hash) > 1
        is_head    == head = commit_hash
    IN  IF repo.commits = <<>>
        THEN [repo |-> repo, fs |-> fs, exc |-> <<"git rev-parse failed">>]
        ELSE IF is_head
        THEN (IF ~has_parent
              THEN [repo |-> repo, fs |-> fs, exc |-> <<"Cannot delete the only backup">>]
              ELSE git_reset_hard(repo, fs, worktree))
        ELSE (IF ~has_parent
              THEN [repo |-> repo, fs |-> fs,
                    exc  |-> <<"Cannot delete the oldest backup while newer ones exist. ",
                               "Delete newer backups first.">>]
              ELSE git_rebase(repo, fs, worktree, commit_pos(repo, commit_hash)))

----------------------------------------------------------------------------
(* git_utils.find_closest_branch over the sorted list of remote branches.  *)

\* the characters of branch names and versions, by increasing code point
CodePoints ==
    <<".", "0", "1", "2", "3", "5", "6", "9", "a", "d", "e", "i", "m", "n", "r", "s", "t", "v">>

ord(c) == CHOOSE k \in DOMAIN CodePoints : CodePoints[k] = c

RECURSIVE str_lt(_, _)
\* a < b of two Python strings
str_lt(a, b) ==
    IF b = <<>> THEN FALSE
    ELSE IF a = <<>> THEN TRUE
    ELSE IF Head(a) = Head(b) THEN str_lt(Tail(a), Tail(b))
    ELSE ord(Head(a)) < ord(Head(b))

RECURSIVE sorted(_)
\* sorted(branches)
sorted(S) ==
    IF S = {} THEN <<>>
    ELSE LET m == CHOOSE x \in S : \A y \in S \ {x} : str_lt(x, y)
         IN  <<m>> \o sorted(S \ {m})

RECURSIVE FirstDot(_, _)
\* 1-based position of the first "." of s at or after position k, 0 if none
FirstDot(s, k) ==
    IF k > Len(s) THEN 0 ELSE IF s[k] = "." THEN k ELSE FirstDot(s, k + 1)

RECURSIVE split_dot(_)
\* version.split(".")
split_dot(s) ==
    LET k == FirstDot(s, 1)
    IN  IF k = 0 THEN <<s>>
        ELSE <<SubSeq(s, 1, k - 1)>> \o split_dot(SubSeq(s, k + 1, Len(s)))

RECURSIVE join_dot(_)
\* ".".join(parts)
join_dot(parts) ==
    IF parts = <<>> THEN <<>>
    ELSE IF Len(parts) = 1 THEN parts[1]
    ELSE parts[1] \o <<".">> \o join_dot(Tail(parts))

\* name in branches
InList(name, branches) == \E k \in DOMAIN branches : branches[k] = name

\* None: no branch has the empty name
NoBranch == <<>>

\* the loop stripped once only
strip_loop_once(parts, branches) ==
    IF parts = <<>> THEN [found |-> FALSE, branch |-> NoBranch]
    ELSE IF InList(join_dot(SubSeq(parts, 1, Len(parts) - 1)), branches)
         THEN [found |-> TRUE, branch |-> join_dot(SubSeq(parts, 1, Len(parts) - 1))]
         ELSE [found |-> FALSE, branch |-> NoBranch]

RECURSIVE strip_loop(_, _)
\* while parts: parts.pop(); candidate = ".".join(parts); ...
strip_loop(parts, branches) ==
    IF parts = <<>> THEN [found |-> FALSE, branch |-> NoBranch]
    ELSE IF InList(join_dot(SubSeq(parts, 1, Len(parts) - 1)), branches)
         THEN [found |-> TRUE, branch |-> join_dot(SubSeq(parts, 1, Len(parts) - 1))]
         ELSE strip_loop(SubSeq(parts, 1, Len(parts) - 1), branches)

BranchMain == <<"m", "a", "i", "n">>
BranchMaster == <<"m", "a", "s", "t", "e", "r">>

\* find_closest_branch(repo_path, version), branches = list_remote_branches(repo_path)
find_closest_branch(branches, version) ==
    IF branches = <<>> THEN [branch |-> NoBranch, exact |-> FALSE, none |-> TRUE]
    ELSE IF InList(version, branches)
         THEN [branch |-> version, exact |-> TRUE, none |-> FALSE]
    ELSE IF strip_loop(split_dot(version), branches).found
         THEN [branch |-> strip_loop(split_dot(version), branches).branch,
               exact |-> FALSE, none |-> FALSE]
    ELSE IF InList(BranchMain, branches)
         THEN [branch |-> BranchMain, exact |-> FALSE, none |-> FALSE]
    ELSE IF InList(BranchMaster, branches)
         THEN [branch |-> BranchMaster, exact |-> FALSE, none |-> FALSE]
    ELSE [branch |-> branches[1], exact |-> FALSE, none |-> FALSE]

----------------------------------------------------------------------------
(* The orchestrator of config_manager.py.  A handler runs on st, the file  *)
(* system and the backup repository together with the trace of what it did *)
(* (log) and the exception it raised (exc), and ends in the new file       *)
(* system, the new repository and its result.                              *)

Event(kind, path, old, commits) ==
    [kind |-> kind, path |-> path, old |-> old, commits |-> commits]

\* a result with nothing in it
Result(op, ref_path, indices, commit_hash) ==
    [op |-> op, ref_path |-> ref_path, indices |-> indices, hash |-> commit_hash,
     status |-> "ok", error |-> <<>>, applied |-> <<>>, skipped |-> <<>>,
     failed |-> <<>>, files |-> {}, diff |-> <<>>, hunks |-> <<>>, calls |-> <<>>,
     backup |-> <<>>, log |-> <<>>,
     branch |-> NoBranch, exact |-> FALSE, warning |-> <<>>, branches |-> <<>>]

\* return {"error": ...}
Error(res, message) == [res EXCEPT !.status = "error", !.error = message]

\* the handler returns res, or the exception of st leaves it
Done(st, res) ==
    [fs   |-> st.fs,
     repo |-> st.repo,
     res  |-> IF st.exc # NoExc
              THEN [res EXCEPT !.status = "raised", !.error = st.exc, !.log = st.log]
              ELSE [res EXCEPT !.log = st.log]]

\* what git finds behind a URL that is no repository
NoRemote ==
    [reachable |-> FALSE, branches |-> {}, head |-> NoBranch,
     files |-> EmptyTree, order |-> <<>>]

\* git_utils.clone(repo_url, REFERENCE_DIR): nothing is done when the
\* checkout is there; a fresh clone is on the branch of the remote's HEAD
clone(ref, remote) ==
    IF ref.cloned THEN [ref |-> ref, exc |-> NoExc]
    ELSE IF ~remote.reachable
    THEN [ref |-> ref, exc |-> <<"git clone failed">>]
    ELSE [ref |-> [cloned |-> TRUE, branch |-> remote.head,
                   files |-> remote.files, order |-> remote.order],
          exc |-> NoExc]

\* git_utils.checkout and pull: the checkout is on branch, at the remote's tip
checkout(ref, origin, branch) ==
    [cloned |-> TRUE, branch |-> branch, files |-> origin.files, order |-> origin.order]

\* sync after the clone: the target, the branch found for it, the result
sync_branch(cloned, origin, target) ==
    IF target = <<>>
    THEN [ref |-> cloned,
          res |-> Error(Result("sync", NoPath, <<>>, 0),
                        <<"No firmware version detected and no branch override set">>)]
    ELSE IF find_closest_branch(sorted(origin.branches), target).none
    THEN [ref |-> cloned,
          res |-> [Error(Result("sync", NoPath, <<>>, 0),
                         <<"No matching branch found for '">> \o target \o <<"'">>)
                      EXCEPT !.branches = sorted(origin.branches)]]
    ELSE [ref |-> checkout(cloned, origin,
                           find_closest_branch(sorted(origin.branches), target).branch),
          res |-> [Result("sync", NoPath, <<>>, 0) EXCEPT
                      !.branch   = find_closest_branch(sorted(origin.branches), target).branch,
                      !.exact    = find_closest_branch(sorted(origin.branches), target).exact,
                      !.warning  =
                          IF find_closest_branch(sorted(origin.branches), target).exact
                          THEN <<>>
                          ELSE <<"Exact branch '">> \o target
                               \o <<"' not found, using closest match '">>
                               \o find_closest_branch(sorted(origin.branches), target).branch
                               \o <<"'">>,
                      !.branches = sorted(origin.branches)]]

\* ConfigManager.sync(repo_url, firmware_version, branch_override): origin
\* is the remote of the checkout that is there, remote what repo_url names
sync(ref, origin, remote, repo_url, firmware_version, branch_override) ==
    IF repo_url = <<>>
    THEN [ref |-> ref,
          res |-> Error(Result("sync", NoPath, <<>>, 0),
                        <<"No reference repository URL configured">>)]
    ELSE IF clone(ref, remote).exc # NoExc
    THEN [ref |-> ref,
          res |-> [Result("sync", NoPath, <<>>, 0) EXCEPT
                      !.status = "raised", !.error = clone(ref, remote).exc]]
    ELSE sync_branch(clone(ref, remote).ref,
                     IF ref.cloned THEN origin ELSE remote,
                     IF branch_override # <<>> THEN branch_override
                     ELSE firmware_version)

\* _write_printer_file that writes the content without its final line break
write_printer_file_stripped(cfg, st, printer_path, content) ==
    LET fs_path == printer_to_fs_path(cfg.resolved_dirs, printer_path)
    IN  IF fs_path = NoPath
        THEN [st EXCEPT !.exc = <<"Cannot resolve printer path: ">> \o path_str(printer_path)]
        ELSE IF ~can_write(st.fs, fs_path)
        THEN [st EXCEPT !.exc = <<"OSError">>]
        ELSE [st EXCEPT !.fs  = open_write(@, fs_path, rstrip_nl(content)),
                        !.log = Append(@, Event("write", realpath(fs_path),
                                                open_read(st.fs, fs_path),
                                                Len(st.repo.commits)))]

\* ConfigManager._write_printer_file
write_printer_file(cfg, st, printer_path, content) ==
    LET fs_path == printer_to_fs_path(cfg.resolved_dirs, printer_path)
    IN  IF fs_path = NoPath
        THEN [st EXCEPT !.exc = <<"Cannot resolve printer path: ">> \o path_str(printer_path)]
        ELSE IF ~can_write(st.fs, fs_path)
        THEN [st EXCEPT !.exc = <<"OSError">>]
        ELSE [st EXCEPT !.fs  = open_write(@, fs_path, content),
                        !.log = Append(@, Event("write", realpath(fs_path),
                                                open_read(st.fs, fs_path),
                                                Len(st.repo.commits)))]

\* _create_backup that returns before it commits
create_backup_uncommitted(cfg, st, message, force) ==
    [st EXCEPT !.log = Append(@, Event("backup", NoPath, NoContent, Len(st.repo.commits)))]

\* ConfigManager._create_backup(message, force)
create_backup(cfg, st, message, force) ==
    LET existing == SelectSeq(cfg.backup_paths,
                              LAMBDA p : isdir(st.fs, cfg.worktree \o p))
        repo     == IF cfg.worktree = NoWorktree \/ cfg.backup_paths = <<>> THEN st.repo
                    ELSE IF existing = <<>> THEN st.repo
                    ELSE backup_commit(st.repo, cfg.worktree, st.fs, message, existing, force)
    IN  [st EXCEPT !.repo = repo,
                   !.log  = Append(@, Event("backup", NoPath, NoContent, Len(repo.commits)))]

\* list_files: git ls-files lists the tracked files in byte order
list_files(ref) == SelectSeq(ref.order, LAMBDA p : p \in DOMAIN ref.files)

RECURSIVE apply_all_loop(_, _, _, _, _, _)
\* the loop of apply_all over ref_files; it ends when a write raises
apply_all_loop(cfg, ref, ref_files, st, applied, skipped) ==
    IF ref_files = <<>> \/ st.exc # NoExc
    THEN [st |-> st, applied |-> applied, skipped |-> skipped]
    ELSE LET ref_path     == Head(ref_files)
             printer_path == ref_to_printer_path(cfg.dir_map, ref_path)
             ref_content  == read_reference_file(ref, ref_path)
             written      == write_printer_file(cfg, st, printer_path, ref_content)
         IN  IF printer_path = NoPath
             THEN apply_all_loop(cfg, ref, Tail(ref_files), st, applied, skipped)
             ELSE IF is_protected(ref_path)
             THEN apply_all_loop(cfg, ref, Tail(ref_files), st, applied,
                                 Append(skipped, ref_path))
             ELSE IF ref_content = NoContent
             THEN apply_all_loop(cfg, ref, Tail(ref_files), st, applied, skipped)
             ELSE apply_all_loop(cfg, ref, Tail(ref_files), written,
                                 IF written.exc = NoExc THEN Append(applied, ref_path)
                                 ELSE applied,
                                 skipped)

\* apply_all that takes its second backup after a failed write as well
apply_all_finish_backed(cfg, ref, r) ==
    Done(create_backup(cfg, r.st, <<"Applied reference ">> \o ref.branch, FALSE),
         [Result("apply_all", NoPath, <<>>, 0) EXCEPT !.applied = r.applied,
                                                       !.skipped = r.skipped])

\* apply_all after its loop: the second backup and the result
apply_all_finish(cfg, ref, r) ==
    IF r.st.exc # NoExc THEN Done(r.st, Result("apply_all", NoPath, <<>>, 0))
    ELSE Done(create_backup(cfg, r.st, <<"Applied reference ">> \o ref.branch, FALSE),
              [Result("apply_all", NoPath, <<>>, 0) EXCEPT !.applied = r.applied,
                                                            !.skipped = r.skipped])

\* ConfigManager.apply_all
apply_all(cfg, ref, st) ==
    IF ~ref.cloned
    THEN Done(st, Error(Result("apply_all", NoPath, <<>>, 0),
                        <<"Reference repository not cloned">>))
    ELSE apply_all_finish(cfg, ref,
            apply_all_loop(cfg, ref, list_files(ref),
                           create_backup(cfg, st, <<"Pre-update backup">>, FALSE),
                           <<>>, <<>>))

\* apply_file that returns after its write without the second backup
apply_file_finish_unbacked(cfg, st, ref_path) ==
    Done(st, [Result("apply_file", ref_path, <<>>, 0) EXCEPT !.applied = <<ref_path>>])

\* apply_file after its write: the second backup and the result
apply_file_finish(cfg, st, ref_path) ==
    IF st.exc # NoExc THEN Done(st, Result("apply_file", ref_path, <<>>, 0))
    ELSE Done(create_backup(cfg, st, <<"Applied ">> \o path_str(ref_path), FALSE),
              [Result("apply_file", ref_path, <<>>, 0) EXCEPT !.applied = <<ref_path>>])

\* ConfigManager.apply_file
apply_file(cfg, ref, st, ref_path) ==
    LET printer_path == ref_to_printer_path(cfg.dir_map, ref_path)
        ref_content  == read_reference_file(ref, ref_path)
        res          == Result("apply_file", ref_path, <<>>, 0)
    IN  IF is_protected(ref_path)
        THEN Done(st, Error(res, <<"Protected file cannot be overwritten: ">>
                                 \o path_str(ref_path)))
        ELSE IF printer_path = NoPath
        THEN Done(st, Error(res, <<"Unknown reference path: ">> \o path_str(ref_path)))
        ELSE IF ref_content = NoContent
        THEN Done(st, Error(res, <<"Reference file not found: ">> \o path_str(ref_path)))
        ELSE apply_file_finish(cfg,
                write_printer_file(cfg,
                    create_backup(cfg, st, <<"Pre-update backup for ">> \o path_str(ref_path),
                                  FALSE),
                    printer_path, ref_content),
                ref_path)

RECURSIVE select_hunks_as_requested(_, _)
\* the hunks picked one requested index after the other, in the order and
\* with the repetitions of the request
select_hunks_as_requested(hunks, hunk_indices) ==
    IF hunk_indices = <<>> THEN <<>>
    ELSE (IF Head(hunk_indices) < Len(hunks) THEN <<At(hunks, Head(hunk_indices))>> ELSE <<>>)
         \o select_hunks_as_requested(hunks, Tail(hunk_indices))

\* selected = [h for h in hunks if h["index"] in hunk_indices]
select_hunks(hunks, hunk_indices) ==
    SelectSeq(hunks, LAMBDA h : \E k \in DOMAIN hunk_indices : hunk_indices[k] = h.index)

RECURSIVE apply_loop_unthreaded(_, _, _, _, _, _)
\* the loop of apply_hunks with every hunk applied at offset 0
apply_loop_unthreaded(result_lines, selected, offset, applied, failed, calls) ==
    IF selected = <<>>
    THEN [lines |-> result_lines, applied |-> applied, failed |-> failed, calls |-> calls]
    ELSE LET r == apply_single_hunk(result_lines, Head(selected), 0)
         IN  apply_loop_unthreaded(r.lines, Tail(selected), 0,
                        IF r.success THEN Append(applied, Head(selected).index) ELSE applied,
                        IF r.success THEN failed ELSE Append(failed, Head(selected).index),
                        Append(calls, [hunk |-> Head(selected), offset |-> 0,
                                       success |-> r.success]))

RECURSIVE apply_loop(_, _, _, _, _, _)
\* the loop of apply_hunks over the selected hunks; calls records each call
\* of _apply_single_hunk with the offset passed to it
apply_loop(result_lines, selected, offset, applied, failed, calls) ==
    IF selected = <<>>
    THEN [lines |-> result_lines, applied |-> applied, failed |-> failed, calls |-> calls]
    ELSE LET r == apply_single_hunk(result_lines, Head(selected), offset)
         IN  apply_loop(r.lines, Tail(selected),
                        IF r.success THEN r.offset ELSE offset,
                        IF r.success THEN Append(applied, Head(selected).index) ELSE applied,
                        IF r.success THEN failed ELSE Append(failed, Head(selected).index),
                        Append(calls, [hunk |-> Head(selected), offset |-> offset,
                                       success |-> r.success]))

\* apply_hunks after its write: the second backup and the result
apply_hunks_finish(cfg, st, res, done) ==
    IF st.exc # NoExc THEN Done(st, res)
    ELSE Done(create_backup(cfg, st,
                  <<"Applied ">> \o FormatInt(Len(done.applied)) \o <<" hunk(s) to ">>
                  \o path_str(res.ref_path)
                  \o (IF done.failed # <<>>
                      THEN <<" (">> \o FormatInt(Len(done.failed)) \o <<" failed)">>
                      ELSE <<>>),
                  FALSE),
              [res EXCEPT !.applied = done.applied, !.failed = done.failed])

\* apply_hunks from the patching on: the loop, the write and the backups
apply_hunks_patch(cfg, st, res, printer_path, done) ==
    apply_hunks_finish(cfg,
        write_printer_file(cfg, st, printer_path, join(done.lines)),
        [res EXCEPT !.calls = done.calls], done)

\* apply_hunks taking its first backup before it looks at the selection
apply_hunks_selected_backed(cfg, st, res, printer_path, printer_content, hunks, selected) ==
    IF selected = <<>>
    THEN Done(create_backup(cfg, st,
                  <<"Pre-update backup for ">> \o path_str(res.ref_path) \o <<" (partial)">>,
                  FALSE),
              Error([res EXCEPT !.hunks = hunks], <<"No valid hunks selected">>))
    ELSE apply_hunks_patch(cfg,
            create_backup(cfg, st,
                <<"Pre-update backup for ">> \o path_str(res.ref_path) \o <<" (partial)">>,
                FALSE),
            [res EXCEPT !.hunks = hunks], printer_path,
            apply_loop(splitlines(printer_content), selected, 0, <<>>, <<>>, <<>>))

\* apply_hunks from the computed hunks on
apply_hunks_selected(cfg, st, res, printer_path, printer_content, hunks, selected) ==
    IF selected = <<>>
    THEN Done(st, Error([res EXCEPT !.hunks = hunks], <<"No valid hunks selected">>))
    ELSE apply_hunks_patch(cfg,
            create_backup(cfg, st,
                <<"Pre-update backup for ">> \o path_str(res.ref_path) \o <<" (partial)">>,
                FALSE),
            [res EXCEPT !.hunks = hunks], printer_path,
            apply_loop(splitlines(printer_content), selected, 0, <<>>, <<>>, <<>>))

\* apply_hunks from the two contents on
apply_hunks_diff(cfg, st, res, printer_path, printer_content, hunks) ==
    apply_hunks_selected(cfg, st, res, printer_path, printer_content, hunks,
                         select_hunks(hunks, res.indices))

\* ConfigManager.apply_hunks
apply_hunks(cfg, ref, st, ref_path, hunk_indices) ==
    LET printer_path    == ref_to_printer_path(cfg.dir_map, ref_path)
        ref_content     == read_reference_file(ref, ref_path)
        printer_content == read_printer_file(cfg, st.fs, printer_path)
        res             == Result("apply_hunks", ref_path, hunk_indices, 0)
    IN  IF is_protected(ref_path)
        THEN Done(st, Error(res, <<"Protected file cannot be overwritten: ">>
                                 \o path_str(ref_path)))
        ELSE IF printer_path = NoPath
        THEN Done(st, Error(res, <<"Unknown reference path: ">> \o path_str(ref_path)))
        ELSE IF ref_content = NoContent
        THEN Done(st, Error(res, <<"Reference file not found: ">> \o path_str(ref_path)))
        ELSE IF printer_content = NoContent
        THEN Done(st, Error(res, <<"Printer file not found: ">> \o path_str(printer_path)))
        ELSE apply_hunks_diff(cfg, st, res, printer_path, printer_content,
                              compute_hunks(printer_content, ref_content))

\* backup_log, newest first: the [full] tag is taken out of the message and
\* a full backup counts every file of its tree, another one the files that
\* differ from its parent
backup_log(repo, max_count) ==
    LET n == Len(repo.commits)
        entry(k) ==
            LET c       == repo.commits[k]
                parent  == IF k = 1 THEN EmptyTree ELSE repo.commits[k - 1].tree
                is_full == \E i \in DOMAIN c.message : c.message[i] \in {" [full]", "[full]"}
            IN  [hash         |-> c.hash,
                 message      |-> SelectSeq(c.message, LAMBDA m : m \notin {" [full]", "[full]"}),
                 filesChanged |-> IF is_full THEN Cardinality(DOMAIN c.tree)
                                  ELSE Cardinality({r \in DOMAIN c.tree \cup DOMAIN parent :
                                                      tree_at(c.tree, r) # tree_at(parent, r)}),
                 isFullBackup |-> is_full]
    IN  [i \in 1..Min(n, max_count) |-> entry(n + 1 - i)]

\* message.strip()
strip(message) ==
    LET keep == {i \in DOMAIN message : message[i] # " "}
    IN  IF keep = {} THEN <<>>
        ELSE SubSeq(message, First(keep), CHOOSE i \in keep : \A j \in keep : j <= i)

\* ConfigManager.create_manual_backup
create_manual_backup(cfg, st, message) ==
    LET label == IF message # <<>> THEN strip(message) ELSE <<"Manual backup">>
        made  == create_backup(cfg, st, label \o <<" [full]">>, TRUE)
        res   == Result("create_manual_backup", NoPath, <<>>, 0)
    IN  IF cfg.worktree = NoWorktree \/ cfg.backup_paths = <<>>
        THEN Done(st, Error(res, <<"Backup directories not configured">>))
        ELSE Done(made, [res EXCEPT !.backup = backup_log(made.repo, 1)])

\* restore_backup after the checkout: the second backup and the result
restore_finish(cfg, st, res, files, out) ==
    IF out.exc # NoExc THEN Done([st EXCEPT !.exc = out.exc], res)
    ELSE Done(create_backup(cfg,
                  [st EXCEPT !.fs = out.fs, !.repo = out.repo,
                             !.log = Append(@, Event("checkout", NoPath, NoContent,
                                                     Len(st.repo.commits)))],
                  <<"Restored from backup ">> \o SliceTo(FormatInt(res.hash), 8), FALSE),
              [res EXCEPT !.files = files])

\* restore_backup after its first backup
restore_checkout(cfg, st, res) ==
    IF commit_pos(st.repo, res.hash) = 0
    THEN Done([st EXCEPT !.exc = <<"git ls-tree failed">>], res)
    ELSE restore_finish(cfg, st, res, backup_files_at(st.repo, res.hash),
                        backup_checkout(st.repo, st.fs, cfg.worktree, res.hash))

\* ConfigManager.restore_backup
restore_backup(cfg, st, commit_hash) ==
    restore_checkout(cfg, create_backup(cfg, st, <<"Pre-restore backup">>, FALSE),
                     Result("restore_backup", NoPath, <<>>, commit_hash))

\* ConfigManager.delete_backup
delete_backup(cfg, st, commit_hash) ==
    LET out == backup_delete(st.repo, st.fs, cfg.worktree, commit_hash)
    IN  Done([st EXCEPT !.fs = out.fs, !.repo = out.repo, !.exc = out.exc],
             Result("delete_backup", NoPath, <<>>, commit_hash))

\* the hunks of a bulk result: index and header only
summary_hunks(hunks) ==
    [k \in DOMAIN hunks |-> [index |-> hunks[k].index, header |-> hunks[k].header]]

RECURSIVE diff_all_loop(_, _, _, _, _)
\* the loop of diff_all over ref_files
diff_all_loop(cfg, ref, fs, ref_files, results) ==
    IF ref_files = <<>> THEN results
    ELSE LET ref_path        == Head(ref_files)
             printer_path    == ref_to_printer_path(cfg.dir_map, ref_path)
             ref_content     == read_reference_file(ref, ref_path)
             printer_content == read_printer_file(cfg, fs, printer_path)
             entry(status, hunks) ==
                 [file |-> ref_path, printerPath |-> printer_path,
                  status |-> status, hunks |-> hunks]
         IN  IF printer_path = NoPath \/ is_protected(ref_path)
             THEN diff_all_loop(cfg, ref, fs, Tail(ref_files), results)
             ELSE diff_all_loop(cfg, ref, fs, Tail(ref_files),
                    Append(results,
                        IF printer_content = NoContent
                        THEN entry("missing", summary_hunks(compute_hunks(<<>>, ref_content)))
                        ELSE IF ref_content = printer_content
                        THEN entry("unchanged", <<>>)
                        ELSE entry("modified",
                                   summary_hunks(compute_hunks(printer_content, ref_content)))))

\* ConfigManager.diff_all
diff_all(cfg, ref, st) ==
    IF ~ref.cloned THEN Done(st, Result("diff_all", NoPath, <<>>, 0))
    ELSE Done(st, [Result("diff_all", NoPath, <<>>, 0) EXCEPT
                      !.diff = diff_all_loop(cfg, ref, st.fs, list_files(ref), <<>>)])

\* one entry of a single-file answer; an entry "not_in_reference" carries
\* neither hunks nor unifiedDiff, which are left empty here
DiffEntry(ref_path, status, hunks, unified) ==
    [file |-> ref_path, status |-> status, hunks |-> hunks, unifiedDiff |-> join(unified)]

\* diff_file with trailing line breaks left out of the comparison
diff_file_lenient(cfg, ref, st, ref_path) ==
    LET printer_path    == ref_to_printer_path(cfg.dir_map, ref_path)
        ref_content     == read_reference_file(ref, ref_path)
        printer_content == read_printer_file(cfg, st.fs, printer_path)
        r               == Result("diff_file", ref_path, <<>>, 0)
        answer(e)       == Done(st, [r EXCEPT !.diff = <<e>>])
    IN  IF printer_path = NoPath
        THEN Done(st, Error(r, <<"Unknown reference path: ">> \o path_str(ref_path)))
        ELSE IF is_protected(ref_path)
        THEN Done(st, Error(r, <<"Protected file: ">> \o path_str(ref_path)))
        ELSE IF ref_content = NoContent
        THEN answer(DiffEntry(ref_path, "not_in_reference", <<>>, <<>>))
        ELSE IF printer_content = NoContent
        THEN answer(DiffEntry(ref_path, "missing", compute_hunks(<<>>, ref_content),
                              unified_diff(<<>>, splitlines(ref_content), ContextLines)))
        ELSE IF rstrip_nl(ref_content) = rstrip_nl(printer_content)
        THEN answer(DiffEntry(ref_path, "unchanged", <<>>, <<>>))
        ELSE answer(DiffEntry(ref_path, "modified",
                              compute_hunks(printer_content, ref_content),
                              unified_diff(splitlines(printer_content),
                                           splitlines(ref_content), ContextLines)))

\* ConfigManager.diff_file
diff_file(cfg, ref, st, ref_path) ==
    LET printer_path    == ref_to_printer_path(cfg.dir_map, ref_path)
        ref_content     == read_reference_file(ref, ref_path)
        printer_content == read_printer_file(cfg, st.fs, printer_path)
        r               == Result("diff_file", ref_path, <<>>, 0)
        answer(e)       == Done(st, [r EXCEPT !.diff = <<e>>])
    IN  IF printer_path = NoPath
        THEN Done(st, Error(r, <<"Unknown reference path: ">> \o path_str(ref_path)))
        ELSE IF is_protected(ref_path)
        THEN Done(st, Error(r, <<"Protected file: ">> \o path_str(ref_path)))
        ELSE IF ref_content = NoContent
        THEN answer(DiffEntry(ref_path, "not_in_reference", <<>>, <<>>))
        ELSE IF printer_content = NoContent
        THEN answer(DiffEntry(ref_path, "missing", compute_hunks(<<>>, ref_content),
                              unified_diff(<<>>, splitlines(ref_content), ContextLines)))
        ELSE IF ref_content = printer_content
        THEN answer(DiffEntry(ref_path, "unchanged", <<>>, <<>>))
        ELSE answer(DiffEntry(ref_path, "modified",
                              compute_hunks(printer_content, ref_content),
                              unified_diff(splitlines(printer_content),
                                           splitlines(ref_content), ContextLines)))

----------------------------------------------------------------------------
(* State.                                                                  *)

VARIABLES
    pe,     \* the patch engine driven on its own: inputs, hunks, line buffer
    cfg,    \* the ConfigManager: directory maps, worktree, backup paths
    ref,    \* the reference checkout: cloned, branch, tracked files
    fs,     \* the printer's file system
    repo,   \* the backup repository
    res,    \* the result of the latest request
    edits   \* how often the printer's files were edited outside the plugin

orch == <<cfg, ref, fs, repo, res, edits>>

vars == <<pe, cfg, ref, fs, repo, res, edits>>

NoRes == Result("", NoPath, <<>>, 0)

\* no manager is running
NoManager ==
    /\ cfg = ConfigManager(DEFAULT_DIRECTORY_MAP, DEFAULT_RESOLVED_DIRS)
    /\ ref = [cloned |-> FALSE, branch |-> NoBranch, files |-> EmptyTree, order |-> <<>>]
    /\ fs = [files |-> EmptyTree, dirs |-> {}]
    /\ repo = EmptyRepo
    /\ res = NoRes
    /\ edits = 0

----------------------------------------------------------------------------
(* The patch engine driven as TestDiffApplyRoundTrip drives it: compute    *)
(* the hunks of (a, b), then apply them to the lines of a one by one,      *)
(* passing each returned offset into the next call.                        *)

\* Bounds of the texts.
MaxChars == 3
NumLines == 17

TextChars == {"a", "b", NL}

\* every text of at most MaxChars characters
SmallTexts == UNION {[1..n -> TextChars] : n \in 0..MaxChars}

\* NumLines lines "a", "b", "c", "a", ... each with its line break
BaseLines == [k \in 1..NumLines |-> <<<<"a">>, <<"b">>, <<"c">>>>[((k - 1) % 3) + 1] \o <<NL>>]

EditPositions == {1, 5, 9, NumLines}
EditOps == {"keep", "delete", "replace", "insert"}

RECURSIVE EditLines(_, _, _)
\* the lines of BaseLines from position k on, edited as ed says
EditLines(lines, ed, k) ==
    IF k > Len(lines) THEN <<>>
    ELSE (IF k \notin DOMAIN ed \/ ed[k] = "keep" THEN <<lines[k]>>
          ELSE IF ed[k] = "delete" THEN <<>>
          ELSE IF ed[k] = "replace" THEN << <<"z", NL>> >>
          ELSE << <<"z", NL>>, lines[k] >>)
         \o EditLines(lines, ed, k + 1)

\* text t without the line break of its last line
ChopNL(t, chop) == IF chop /\ t # <<>> /\ t[Len(t)] = NL THEN SubSeq(t, 1, Len(t) - 1) ELSE t

\* pairs (current, reference) of long texts: the base text against an edited copy
EditedPairs ==
    { <<ChopNL(join(BaseLines), ca), ChopNL(join(EditLines(BaseLines, ed, 1)), cb)>> :
        ed \in [EditPositions -> EditOps], ca \in BOOLEAN, cb \in BOOLEAN }

TextPairs == (SmallTexts \X SmallTexts) \cup EditedPairs

NoHunk == [index |-> 0, header |-> <<>>, lines |-> <<>>, summary |-> <<>>]

InitPatch ==
    \E ab \in TextPairs :
        pe = [phase |-> "start", a |-> ab[1], b |-> ab[2], hunks |-> <<>>,
              lines |-> <<>>, hunk |-> NoHunk, offset |-> 0, k |-> 0, ok |-> TRUE,
              result |-> <<>>, in_lines |-> <<>>, in_offset |-> 0]
    /\ NoManager

\* hunks = ConfigManager._compute_hunks(path, current, reference);
\* result_lines = current.splitlines(keepends=True); offset = 0
PatchCompute ==
    /\ pe.phase = "start"
    /\ pe' = [pe EXCEPT !.phase = "apply",
                        !.hunks = compute_hunks(pe.a, pe.b),
                        !.lines = splitlines(pe.a)]
    /\ UNCHANGED orch

\* success, result_lines, offset = _apply_single_hunk(result_lines, hunk, offset)
PatchApplyNext ==
    /\ pe.phase = "apply"
    /\ pe.k < Len(pe.hunks)
    /\ LET r == apply_single_hunk(pe.lines, At(pe.hunks, pe.k), pe.offset)
       IN  pe' = [pe EXCEPT !.lines = r.lines, !.offset = r.offset,
                            !.hunk = At(pe.hunks, pe.k),
                            !.k = pe.k + 1, !.ok = pe.ok /\ r.success]
    /\ UNCHANGED orch

\* result = "".join(result_lines)
PatchJoin ==
    /\ pe.phase = "apply"
    /\ pe.k = Len(pe.hunks)
    /\ pe' = [pe EXCEPT !.phase = "done", !.result = join(pe.lines)]
    /\ UNCHANGED orch

NextPatch == PatchCompute \/ PatchApplyNext \/ PatchJoin

SpecPatch == InitPatch /\ [][NextPatch]_vars

\* C1: for any texts a and b, applying every hunk of compute_hunks(a, b) to
\* the lines of a in ascending order with threaded offsets succeeds each
\* time and the joined result is exactly b.
RoundTrip ==
    pe.phase = "done" => (pe.ok /\ pe.result = pe.b)

----------------------------------------------------------------------------
(* _apply_single_hunk called on its own, as TestApplySingleHunk calls it,  *)
(* with a line buffer, a hunk and an offset that need not fit each other.  *)

MaxBuf == 2
MaxHunkLines == 2
MaxStart == 2
MaxOff == 1

BufferLines == {<<"a", NL>>, <<"b", NL>>, <<"a">>}
Buffers == UNION {[1..n -> BufferLines] : n \in 0..MaxBuf}

HunkLines == {<<" ", "a">>, <<"-", "a">>, <<"-", "b">>, <<"+", "b">>, <<"a">>}
HunkBodies == UNION {[1..n -> HunkLines] : n \in 0..MaxHunkLines}

\* '@@ -{} +{} @@' with the ranges of difflib, and headers the pattern rejects
Headers ==
    { <<"@", "@", " ", "-">> \o FormatInt(os) \o <<" ", "+", "1", " ", "@", "@">> :
        os \in 0..MaxStart }
    \cup { <<"@", "@", " ", "-">> \o format_range_unified(os, os + 2)
           \o <<" ", "+">> \o format_range_unified(os, os + 2) \o <<" ", "@", "@">> :
        os \in 0..1 }
    \cup { <<"g", "a", "r", "b", "a", "g", "e">>,
           <<"@", "@", " ", "-", "1", " ", "+", "1">>,
           <<"@", "@", " ", "-", "1", ",", " ", "+", "1", " ", "@", "@">> }

Offsets == (0 - MaxOff)..MaxOff

InitApply ==
    \E lines \in Buffers, body \in HunkBodies, header \in Headers, offset \in Offsets :
        pe = [phase |-> "single", a |-> <<>>, b |-> <<>>, hunks |-> <<>>,
              lines |-> lines,
              hunk |-> [index |-> 0, header |-> header, lines |-> body, summary |-> <<>>],
              offset |-> offset, k |-> 0, ok |-> TRUE,
              result |-> <<>>, in_lines |-> lines, in_offset |-> offset]
    /\ NoManager

\* success, new_lines, offset = _apply_single_hunk(lines, hunk, offset)
ApplySingle ==
    /\ pe.phase = "single"
    /\ LET r == apply_single_hunk(pe.lines, pe.hunk, pe.offset)
       IN  pe' = [pe EXCEPT !.phase = "applied", !.lines = r.lines,
                            !.offset = r.offset, !.ok = r.success]
    /\ UNCHANGED orch

NextApply == ApplySingle

SpecApply == InitApply /\ [][NextApply]_vars

\* the position start = oldStart - 1 + offset of the hunk of pe
HunkStart == parse_hunk_header(pe.hunk.header).old_start - 1 + pe.in_offset

\* the hunk of pe does not fit the buffer it was given: no parsable header,
\* expected old lines past the end of the buffer, or buffer lines at
\* [start, end) that differ from the expected old lines
HunkMismatch ==
    \/ ~parse_hunk_header(pe.hunk.header).ok
    \/ HunkStart + Len(old_of(pe.hunk.lines)) > Len(pe.in_lines)
    \/ rstrip_all(Slice(pe.in_lines, HunkStart, HunkStart + Len(old_of(pe.hunk.lines))))
         # rstrip_all(old_of(pe.hunk.lines))

\* C2: on a mismatch _apply_single_hunk reports failure and returns the
\* input buffer and the input offset unchanged.
MismatchRejected ==
    (pe.phase = "applied" /\ HunkMismatch)
        => (~pe.ok /\ pe.lines = pe.in_lines /\ pe.offset = pe.in_offset)

\* C2 witness: a parsable hunk that lies inside the buffer, whose context
\* differs from the buffer and which was refused.
MismatchRejectedWitness ==
    /\ pe.phase = "applied"
    /\ parse_hunk_header(pe.hunk.header).ok
    /\ HunkStart >= 0
    /\ HunkStart + Len(old_of(pe.hunk.lines)) <= Len(pe.in_lines)
    /\ HunkMismatch
    /\ ~pe.ok

----------------------------------------------------------------------------
(* The plugin serving requests, one at a time, on a printer whose files    *)
(* are also edited from outside.                                           *)

\* Bounds: commit hashes handed out, edits from outside.
MaxHash == 4
MaxEdits == 1

Idle ==
    pe = [phase |-> "idle", a |-> <<>>, b |-> <<>>, hunks |-> <<>>,
          lines |-> <<>>, hunk |-> NoHunk, offset |-> 0, k |-> 0, ok |-> TRUE,
          result |-> <<>>, in_lines |-> <<>>, in_offset |-> 0]

\* file contents on the printer and in the reference repository
FactoryText == <<"a", NL>>
ReferenceText == <<"b", NL>>

README == <<"README.md">>
JobFile == <<"gcodes", "job.g">>
ConfigFile == <<"sys", "config.g">>
OverrideFile == <<"sys", "meltingplot", "dsf-config-override.g">>

\* the tracked files of the reference repository, in the order of ls-files
ReferenceOrder == <<README, JobFile, ConfigFile, OverrideFile>>

Branch35 == <<"3", ".", "5">>

Cloned(contents) ==
    [cloned |-> TRUE, branch |-> Branch35,
     files  |-> [p \in {ReferenceOrder[k] : k \in DOMAIN ReferenceOrder} |-> contents[p]],
     order  |-> ReferenceOrder]

NotCloned == [cloned |-> FALSE, branch |-> NoBranch, files |-> EmptyTree, order |-> <<>>]

\* the reference paths a client asks for: the tracked ones, the protected
\* file under another spelling of its path ("sys//meltingplot/..."), and a
\* file that is not there
ClientPaths ==
    { README, JobFile, ConfigFile, OverrideFile,
      <<"sys", "", "meltingplot", "dsf-config-override.g">>,
      <<"sys", "missing.g">> }

\* main(): resolve_path answers for every directory, for the backed-up
\* ones only, or for gcodes only
ResolvedChoices ==
    { DEFAULT_RESOLVED_DIRS,
      SelectSeq(DEFAULT_RESOLVED_DIRS,
                LAMBDA e : e.printer_prefix[2] \in {"sys", "macros", "filaments"}),
      SelectSeq(DEFAULT_RESOLVED_DIRS, LAMBDA e : e.printer_prefix[2] = "gcodes") }

SdCard == <<"opt", "dsf", "sd">>

\* the files a printer starts with, factory content; the override file is
\* there once the machine has been set up
PrinterFiles == {SdCard \o ConfigFile, SdCard \o OverrideFile, SdCard \o JobFile}

\* the directories of the SD card that are there from the start
PrinterDirs == {SdCard \o <<"sys">>, SdCard \o <<"macros">>, SdCard \o <<"gcodes">>}

InitialFs(present) ==
    [files |-> [f \in present |-> FactoryText],
     dirs  |-> Ancestors(SdCard \o <<"sys">>) \cup PrinterDirs
               \cup UNION {Ancestors(f) : f \in present}]

\* the files edited from outside and what is written to them
EditedFiles == {SdCard \o ConfigFile, SdCard \o OverrideFile}
EditedTexts == {FactoryText, ReferenceText}

\* the hunk indices of a request
FewRequests == {<<>>, <<0>>, <<1, 0>>}

\* a commit hash no commit ever had
UnknownHash == MaxHash + 1

\* the installations the plugin starts on: a set-up printer with every
\* directory resolved, before and after sync, one not yet set up, and set-up
\* printers on which resolve_path answered for some directories only
Installations ==
    { [resolved |-> r, cloned |-> c, present |-> p] :
        r \in ResolvedChoices, c \in BOOLEAN,
        p \in {PrinterFiles \ {SdCard \o OverrideFile}, PrinterFiles} }

Installed(i) ==
    \/ i.resolved = DEFAULT_RESOLVED_DIRS /\ (i.cloned \/ i.present = PrinterFiles)
    \/ i.cloned /\ i.present = PrinterFiles

Init ==
    /\ Idle
    /\ \E i \in {j \in Installations : Installed(j)} :
          /\ cfg = ConfigManager(DEFAULT_DIRECTORY_MAP, i.resolved)
          /\ ref = IF i.cloned THEN Cloned([p \in ClientPaths |-> ReferenceText])
                    ELSE NotCloned
          /\ fs = InitialFs(i.present)
    /\ repo = EmptyRepo
    /\ res = NoRes
    /\ edits = 0

\* a request is taken when the answer to the one before has left; the
\* handler runs to its end: its file system, repository and result are the
\* new ones
Serve(handled) ==
    /\ res = NoRes
    /\ \E out \in {handled} :
          /\ fs' = out.fs
          /\ repo' = out.repo
          /\ res' = out.res
    /\ UNCHANGED <<pe, cfg, ref, edits>>

Start == [fs |-> fs, repo |-> repo, log |-> <<>>, exc |-> NoExc]

\* every commit of a request finds an unused hash below the bound
HashesLeft(n) == repo.next + n - 1 <= MaxHash

\* POST apply
ApplyAll ==
    /\ HashesLeft(2)
    /\ Serve(apply_all(cfg, ref, Start))

\* POST apply?file=...
ApplyFile ==
    /\ HashesLeft(2)
    /\ \E ref_path \in ClientPaths : Serve(apply_file(cfg, ref, Start, ref_path))

\* POST apply-hunks?file=... with the hunk indices of requests
ApplyHunksOf(paths, requests) ==
    /\ HashesLeft(2)
    /\ \E ref_path \in paths, hunk_indices \in requests :
          Serve(apply_hunks(cfg, ref, Start, ref_path, hunk_indices))

ApplyHunks == ApplyHunksOf(ClientPaths, FewRequests)

\* GET diff
DiffAll == Serve(diff_all(cfg, ref, Start))

\* POST manual-backup
ManualBackup ==
    /\ HashesLeft(1)
    /\ Serve(create_manual_backup(cfg, Start, <<>>))

\* POST restore?hash=...
RestoreBackup ==
    /\ HashesLeft(2)
    /\ \E k \in 0..Len(repo.commits) :
          Serve(restore_backup(cfg, Start,
                               IF k = 0 THEN UnknownHash ELSE repo.commits[k].hash))

\* POST deleteBackup?hash=...
DeleteBackup ==
    \E k \in 0..Len(repo.commits) :
        /\ k = 0 \/ HashesLeft(Len(repo.commits) - k)
        /\ Serve(delete_backup(cfg, Start,
                               IF k = 0 THEN UnknownHash ELSE repo.commits[k].hash))

\* the reference repository and the URLs of the settings: none, one that
\* is no repository, the repository's
Reference ==
    [reachable |-> TRUE, branches |-> {Branch35}, head |-> Branch35,
     files |-> Cloned([p \in ClientPaths |-> ReferenceText]).files,
     order |-> ReferenceOrder]

ReferenceUrl == <<"https://github.com/Meltingplot/reference.git">>
NoRepoUrl == <<"https://example.invalid/none.git">>

\* the plugin data a sync reads: the repository URL of the settings, the
\* firmware version a board reports, the branch override of the settings
PluginData ==
    { [referenceRepoUrl |-> <<>>, detectedFirmwareVersion |-> <<>>,
       firmwareBranchOverride |-> <<>>],
      [referenceRepoUrl |-> NoRepoUrl, detectedFirmwareVersion |-> <<>>,
       firmwareBranchOverride |-> Branch35],
      [referenceRepoUrl |-> ReferenceUrl, detectedFirmwareVersion |-> <<>>,
       firmwareBranchOverride |-> <<>>],
      [referenceRepoUrl |-> ReferenceUrl,
       detectedFirmwareVersion |-> <<"3", ".", "5", ".", "2">>,
       firmwareBranchOverride |-> <<>>],
      [referenceRepoUrl |-> ReferenceUrl,
       detectedFirmwareVersion |-> <<"3", ".", "5", ".", "2">>,
       firmwareBranchOverride |-> Branch35] }

\* POST sync
Sync ==
    /\ res = NoRes
    /\ \E data \in PluginData :
          \E out \in {sync(ref, Reference,
                           IF data.referenceRepoUrl = ReferenceUrl THEN Reference
                           ELSE NoRemote,
                           data.referenceRepoUrl, data.detectedFirmwareVersion,
                           data.firmwareBranchOverride)} :
              /\ ref' = out.ref
              /\ res' = out.res
    /\ UNCHANGED <<pe, cfg, fs, repo, edits>>

\* a file of the printer is written or removed from outside the plugin
UserEdit ==
    /\ res = NoRes
    /\ edits < MaxEdits
    /\ edits' = edits + 1
    /\ \E f \in EditedFiles, text \in EditedTexts \cup {NoContent} :
          fs' = IF text = NoContent
                THEN [fs EXCEPT !.files = [g \in DOMAIN fs.files \ {f} |-> fs.files[g]]]
                ELSE open_write(fs, f, text)
    /\ UNCHANGED <<pe, cfg, ref, repo, res>>

\* the answer to the request is sent
Respond ==
    /\ res # NoRes
    /\ res' = NoRes
    /\ UNCHANGED <<pe, cfg, ref, fs, repo, edits>>

Next ==
    \/ Sync
    \/ ApplyAll
    \/ ApplyFile
    \/ ApplyHunks
    \/ DiffAll
    \/ ManualBackup
    \/ RestoreBackup
    \/ DeleteBackup
    \/ UserEdit
    \/ Respond

Spec == Init /\ [][Next]_vars

----------------------------------------------------------------------------
(* apply_hunks on a configuration file that differs from the reference in  *)
(* several places: the first request on a printer that has no backup yet.  *)

\* the hunk indices of a request: in order, out of order, repeated, out of
\* range
HunkRequests ==
    { <<>>, <<0>>, <<1>>, <<2>>, <<0, 2>>, <<2, 0>>, <<1, 2>>, <<1, 1, 0>>,
      <<2, 1, 0>>, <<0, 1, 2>>, <<5>>, <<2, 7, 0, 2>> }

InitHunks ==
    /\ Idle
    /\ cfg = ConfigManager(DEFAULT_DIRECTORY_MAP, DEFAULT_RESOLVED_DIRS)
    /\ \E ab \in EditedPairs :
          /\ fs = open_write(InitialFs(PrinterFiles), SdCard \o ConfigFile, ab[1])
          /\ ref = Cloned([p \in ClientPaths |->
                              IF p = ConfigFile THEN ab[2] ELSE ReferenceText])
    /\ repo = EmptyRepo
    /\ res = NoRes
    /\ edits = 0

\* POST apply-hunks?file=sys/config.g
ApplyConfigHunks ==
    /\ repo.commits = <<>>
    /\ ApplyHunksOf({ConfigFile}, HunkRequests)

NextHunks == ApplyConfigHunks \/ Respond

SpecHunks == InitHunks /\ [][NextHunks]_vars

\* the hunk indices of the request
Requested == {res.indices[k] : k \in DOMAIN res.indices}

\* the requested indices that the diff has
Selected == {i \in Requested : i < Len(res.hunks)}

\* the index of the hunk of the k-th call of _apply_single_hunk
CallIndex(k) == res.calls[k].hunk.index

\* the lines of a hunk that carry the prefix c
Prefixed(hunk, c) == Cardinality({k \in DOMAIN hunk.lines : startswith(hunk.lines[k], <<c>>)})

RECURSIVE AppliedDelta(_, _)
\* added lines minus removed lines, summed over the successful ones of the
\* first n calls
AppliedDelta(calls, n) ==
    IF n = 0 THEN 0
    ELSE AppliedDelta(calls, n - 1)
         + (IF calls[n].success
            THEN Prefixed(calls[n].hunk, "+") - Prefixed(calls[n].hunk, "-")
            ELSE 0)

\* C3: apply_hunks applies the requested hunks that exist in strictly
\* ascending index order, each once, whatever the order or repetition of the
\* indices in the request, and the offset passed to each application is the
\* sum of (added - removed) lines of the hunks applied successfully before
\* it in the same call; a failed hunk adds nothing.
MultiHunkProtocol ==
    (res.op = "apply_hunks" /\ res.calls # <<>>) =>
        /\ \A j \in DOMAIN res.calls, k \in DOMAIN res.calls :
              j < k => CallIndex(j) < CallIndex(k)
        /\ {CallIndex(k) : k \in DOMAIN res.calls} = Selected
        /\ \A k \in DOMAIN res.calls :
              /\ res.calls[k].hunk = At(res.hunks, CallIndex(k))
              /\ res.calls[k].offset = AppliedDelta(res.calls, k - 1)

\* C3 witness: a request that names three hunks out of order; the hunks
\* were applied, one of them grew the file and another one shrank it, and
\* a later one was passed an offset other than 0.
MultiHunkProtocolWitness ==
    /\ res.op = "apply_hunks"
    /\ Len(res.calls) = 3
    /\ \E j \in DOMAIN res.indices, k \in DOMAIN res.indices :
          j < k /\ res.indices[j] >= res.indices[k]
    /\ \E k \in DOMAIN res.calls : res.calls[k].offset # 0
    /\ \E j \in DOMAIN res.calls, k \in DOMAIN res.calls :
          /\ Prefixed(res.calls[j].hunk, "+") > Prefixed(res.calls[j].hunk, "-")
          /\ Prefixed(res.calls[k].hunk, "+") < Prefixed(res.calls[k].hunk, "-")

\* the events of the latest request that wrote a printer file
Writes == {k \in DOMAIN res.log : res.log[k].kind = "write"}

\* the lines of the printer file before the request wrote it
LinesBefore == splitlines(res.log[First(Writes)].old)

\* the text of the printer file after the request
TextAfter == fs.files[res.log[First(Writes)].path]

\* the original line span of a hunk, from its header: old_count lines from
\* line old_start on (positions from 0)
SpanStart(hunk) == parse_hunk_header(hunk.header).old_start - 1
SpanLen(hunk) == parse_hunk_header(hunk.header).old_count

\* the new lines of a hunk, each one ended by a line break
NewLines(hunk) == [k \in DOMAIN new_of(hunk.lines) |-> new_of(hunk.lines)[k] \o <<NL>>]

RECURSIVE SpansReplaced(_, _, _, _)
\* lines from position i on (positions from 0), with the span of every hunk
\* of chosen replaced by the new lines of the hunk and every other line kept
SpansReplaced(lines, hunks, chosen, i) ==
    IF i >= Len(lines) THEN <<>>
    ELSE LET here == {k \in DOMAIN hunks :
                        hunks[k].index \in chosen /\ SpanStart(hunks[k]) = i}
         IN  IF here = {}
             THEN <<At(lines, i)>> \o SpansReplaced(lines, hunks, chosen, i + 1)
             ELSE NewLines(hunks[First(here)])
                  \o SpansReplaced(lines, hunks, chosen, i + SpanLen(hunks[First(here)]))

\* C4: applying a subset of the hunks of a multi-hunk diff replaces the
\* original line span of each selected hunk by the new lines of that hunk
\* and leaves every line outside those spans, the spans of the unselected
\* hunks included, as it was and where it was relative to the others.
PartialApplication ==
    (res.op = "apply_hunks" /\ res.status = "ok" /\ Len(res.hunks) >= 2) =>
        /\ Cardinality(Writes) = 1
        /\ TextAfter = join(SpansReplaced(LinesBefore, res.hunks, Selected, 0))

\* C4 witness: of three hunks the first and the last were applied, the last
\* one at an offset other than 0, and the middle one was left out.
PartialApplicationWitness ==
    /\ res.op = "apply_hunks"
    /\ res.status = "ok"
    /\ Len(res.hunks) = 3
    /\ Selected = {0, 2}
    /\ res.applied = <<0, 2>>
    /\ res.calls[2].offset # 0
    /\ TextAfter # join(LinesBefore)

----------------------------------------------------------------------------
(* What a request did, read from its result.                               *)

Applying == res.op \in {"apply_all", "apply_file", "apply_hunks"}

\* the file system entries that the protected reference paths are mapped to
ProtectedTargets ==
    { realpath(printer_to_fs_path(cfg.resolved_dirs,
                                  ref_to_printer_path(cfg.dir_map, p))) :
        p \in PROTECTED_FILES }

\* C5: no apply_all, apply_file or apply_hunks writes the printer file that
\* a protected reference path is mapped to; apply_file and apply_hunks
\* answer a protected path with an error before any backup or write, and
\* apply_all lists it as skipped and goes on.
ProtectedNeverWritten ==
    Applying =>
        /\ \A k \in Writes : res.log[k].path \notin ProtectedTargets
        /\ (res.op # "apply_all" /\ is_protected(res.ref_path)) =>
              (res.status = "error" /\ res.log = <<>>)
        /\ (res.op = "apply_all" /\ res.status = "ok") =>
              \A k \in DOMAIN ref.order :
                  is_protected(ref.order[k]) =>
                      \E j \in DOMAIN res.skipped : res.skipped[j] = ref.order[k]

\* the backup history at the time of the write ev holds the content the
\* written file had before
Recorded(ev) ==
    /\ cfg.worktree # NoWorktree
    /\ HasPrefix(ev.path, cfg.worktree)
    /\ \E c \in 1..ev.commits :
          /\ c <= Len(repo.commits)
          /\ tree_at(repo.commits[c].tree, SliceFrom(ev.path, Len(cfg.worktree))) = ev.old

\* C6 as stated: whenever apply_all, apply_file or apply_hunks overwrites an
\* existing printer file, in any directory the Directory Map allows writing
\* to and on any manager configuration, the content the file had is
\* recorded in the backup history at the time of the write.
OverwrittenIsRecorded ==
    Applying =>
        \A k \in Writes : res.log[k].old # NoContent => Recorded(res.log[k])

\* the file lies below one of the directories that the backups track
Tracked(path) ==
    /\ cfg.worktree # NoWorktree
    /\ \E k \in DOMAIN cfg.backup_paths : HasPrefix(path, cfg.worktree \o cfg.backup_paths[k])

\* C6 amended: whenever apply_all, apply_file or apply_hunks overwrites an
\* existing printer file below one of the backed-up directories (sys,
\* macros, filaments), the content the file had is recorded in the backup
\* history at the time of the write.
TrackedOverwrittenIsRecorded ==
    Applying =>
        \A k \in Writes :
            (res.log[k].old # NoContent /\ Tracked(res.log[k].path)) => Recorded(res.log[k])

\* C6 witness: a tracked file was overwritten with other content and the
\* backup taken by the same request holds what it had.
TrackedOverwrittenWitness ==
    /\ Applying
    /\ \E k \in Writes :
          /\ res.log[k].old # NoContent
          /\ Tracked(res.log[k].path)
          /\ fs.files[res.log[k].path] # res.log[k].old
          /\ res.log[k].commits = Len(repo.commits) - 1
          /\ res.log[k].commits >= 1
          /\ startswith(repo.commits[res.log[k].commits].message, <<"Pre-update backup for ">>)
          /\ tree_at(repo.commits[res.log[k].commits].tree,
                     SliceFrom(res.log[k].path, Len(cfg.worktree))) = res.log[k].old

\* a reference path that the Directory Map or the Resolved Directory Map
\* does not translate
Untranslatable(ref_path) ==
    \/ ref_to_printer_path(cfg.dir_map, ref_path) = NoPath
    \/ printer_to_fs_path(cfg.resolved_dirs,
                          ref_to_printer_path(cfg.dir_map, ref_path)) = NoPath

\* the reference path is in the result: applied, or listed with a status
InResult(ref_path) ==
    \/ \E k \in DOMAIN res.applied : res.applied[k] = ref_path
    \/ \E k \in DOMAIN res.diff : res.diff[k].file = ref_path

\* C7: diff_all and apply_all skip a reference file that does not
\* translate: the operation is not aborted, the file is not in the result,
\* and every other file that is not protected is processed.
UntranslatableSkipped ==
    (res.op \in {"apply_all", "diff_all"} /\ ref.cloned) =>
        /\ res.status = "ok"
        /\ \A k \in DOMAIN ref.order :
              IF Untranslatable(ref.order[k]) THEN ~InResult(ref.order[k])
              ELSE is_protected(ref.order[k]) \/ InResult(ref.order[k])

Bracketed == res.op \in {"apply_all", "apply_file", "apply_hunks", "restore_backup"}

\* C8: in apply_all, apply_file, apply_hunks and restore_backup, once the
\* validation has passed, the first thing done is a backup attempt, every
\* modification of a printer file comes after it, and when the operation
\* completes the last thing done is a backup attempt, after the last
\* modification; a request refused by the validation does nothing.
BackupBracketing ==
    Bracketed =>
        /\ res.status = "error" <=> res.log = <<>>
        /\ res.log # <<>> => res.log[1].kind = "backup"
        /\ res.status = "ok" =>
              /\ Len(res.log) >= 2
              /\ res.log[Len(res.log)].kind = "backup"
              /\ \A k \in 2..(Len(res.log) - 1) : res.log[k].kind \in {"write", "checkout"}
        /\ \A k \in DOMAIN res.log :
              res.log[k].kind \in {"write", "checkout"} =>
                  /\ k > 1
                  /\ res.status = "ok" => k < Len(res.log)

\* C8 witness: an apply_all that wrote two files between its two backups,
\* both of which made a commit.
BackupBracketingWitness ==
    /\ res.op = "apply_all"
    /\ res.status = "ok"
    /\ Len(res.log) = 4
    /\ res.log[2].kind = "write"
    /\ res.log[3].kind = "write"
    /\ res.log[4].commits = res.log[1].commits + 1
    /\ res.log[1].commits = res.log[2].commits
    /\ startswith(repo.commits[res.log[1].commits].message, <<"Pre-update backup">>)

\* the tree of the commit that the latest request named
NamedTree == repo.commits[commit_pos(repo, res.hash)].tree

\* C9 as stated: after restore_backup(h) succeeds, every file recorded in h
\* has the content recorded in h and no file below the tracked directories
\* that is absent from h remains on the printer.
RestoreMatchesSnapshot ==
    (res.op = "restore_backup" /\ res.status = "ok") =>
        /\ \A r \in DOMAIN NamedTree : open_read(fs, cfg.worktree \o r) = NamedTree[r]
        /\ \A f \in DOMAIN fs.files :
              Tracked(f) => SliceFrom(f, Len(cfg.worktree)) \in DOMAIN NamedTree

\* a step that is a successful restore_backup: the files of the named commit
\* are written, the result lists them, and the other files stay as they were
RestoreOverlay ==
    (res = NoRes /\ res'.op = "restore_backup" /\ res'.status = "ok") =>
        LET tree == repo'.commits[commit_pos(repo', res'.hash)].tree
        IN  /\ res'.files = DOMAIN tree
            /\ \A r \in DOMAIN tree : open_read(fs', cfg.worktree \o r) = tree[r]
            /\ \A f \in DOMAIN fs.files \cup DOMAIN fs'.files :
                  f \notin {cfg.worktree \o r : r \in DOMAIN tree} =>
                      /\ f \in DOMAIN fs.files
                      /\ f \in DOMAIN fs'.files
                      /\ fs'.files[f] = fs.files[f]

\* C9 amended: after restore_backup(h) succeeds, every file recorded in h
\* has the content recorded in h, and every file that h does not record is
\* on the printer exactly as it was before.
RestoreOverlaysSnapshot == [][RestoreOverlay]_vars

\* C9 witness: a restore that changed the printer (its second backup made
\* a commit) and left a tracked file that the restored commit does not
\* record.
RestoreOverlaysSnapshotWitness ==
    /\ res.op = "restore_backup"
    /\ res.status = "ok"
    /\ startswith(repo.commits[Len(repo.commits)].message, <<"Restored from backup ">>)
    /\ \E f \in DOMAIN fs.files :
          Tracked(f) /\ SliceFrom(f, Len(cfg.worktree)) \notin DOMAIN NamedTree

OnlyBackup == <<"Cannot delete the only backup">>
OldestBackup ==
    <<"Cannot delete the oldest backup while newer ones exist. ", "Delete newer backups first.">>

\* a step that is a delete_backup: refused with its message and without
\* effect for the only commit and for the root below newer commits, and
\* never leaving a history empty that had a commit
DeleteRefusal ==
    (res = NoRes /\ res'.op = "delete_backup") =>
        /\ (commit_pos(repo, res'.hash) = 1 /\ Len(repo.commits) = 1) =>
              /\ res'.status = "raised"
              /\ res'.error = OnlyBackup
              /\ repo' = repo
              /\ fs' = fs
        /\ (commit_pos(repo, res'.hash) = 1 /\ Len(repo.commits) > 1) =>
              /\ res'.status = "raised"
              /\ res'.error = OldestBackup
              /\ repo' = repo
              /\ fs' = fs
        /\ repo.commits # <<>> => repo'.commits # <<>>

\* C10: delete_backup of the only commit of the history, and of the root
\* commit while newer ones exist, raise the error that names the case and
\* leave history and printer as they were; no delete_backup empties a
\* history that has a commit.
HistoryIntegrity == [][DeleteRefusal]_vars

\* C10 witness: the root of a history of two commits was named and the
\* request was refused.
HistoryIntegrityWitness ==
    /\ res.op = "delete_backup"
    /\ res.status = "raised"
    /\ res.error = OldestBackup
    /\ Len(repo.commits) = 2
    /\ commit_pos(repo, res.hash) = 1

----------------------------------------------------------------------------
(* Deleting backups.                                                       *)

\* a step that is a delete_backup of the tip of a history of two or more
\* commits: the request succeeds and the history is the one before without
\* its newest entry
TipDeletion ==
    (/\ res = NoRes
     /\ res'.op = "delete_backup"
     /\ Len(repo.commits) >= 2
     /\ res'.hash = repo.commits[Len(repo.commits)].hash) =>
        /\ res'.status = "ok"
        /\ repo'.commits = SubSeq(repo.commits, 1, Len(repo.commits) - 1)

\* C11: delete_backup of the tip of a linear history of n >= 2 commits
\* removes exactly that commit: the history is the previous one without its
\* newest entry and every remaining commit keeps hash, message and position.
DeleteTipDropsNewest == [][TipDeletion]_vars

\* C11 witness: the tip of a history of three commits was deleted; the two
\* older commits are the history now.
DeleteTipDropsNewestWitness ==
    /\ res.op = "delete_backup"
    /\ res.status = "ok"
    /\ Len(repo.commits) = 2
    /\ repo.next = res.hash + 1
    /\ \A k \in DOMAIN repo.commits : repo.commits[k].hash < res.hash

\* the step is a delete_backup that succeeded on the commit at position k
\* of the history, k neither the first nor the last position
DeletesMiddle(k) ==
    /\ res = NoRes
    /\ res'.op = "delete_backup"
    /\ res'.status = "ok"
    /\ k \in 2..(Len(repo.commits) - 1)
    /\ res'.hash = repo.commits[k].hash

\* a successful delete_backup of a middle commit takes exactly that commit
\* out: one entry less, the hash gone, the older commits as they were, the
\* newer ones all there with their messages in their order
MiddleDeletion ==
    \A k \in DOMAIN repo.commits :
        DeletesMiddle(k) =>
            /\ Len(repo'.commits) = Len(repo.commits) - 1
            /\ \A j \in DOMAIN repo'.commits : repo'.commits[j].hash # res'.hash
            /\ SubSeq(repo'.commits, 1, k - 1) = SubSeq(repo.commits, 1, k - 1)
            /\ \A j \in (k + 1)..Len(repo.commits) :
                  /\ j - 1 \in DOMAIN repo'.commits
                  /\ repo'.commits[j - 1].message = repo.commits[j].message

\* C12: delete_backup of a commit that is neither tip nor root removes
\* exactly that commit: the history is one shorter, the deleted hash is
\* gone, every older commit keeps its hash, and every newer commit survives
\* on the parent of the deleted one with its message and order unchanged.
DeleteMiddleDropsOne == [][MiddleDeletion]_vars

\* a successful delete_backup of a middle commit after which all newer
\* commits are still there leaves each of them with the files and contents
\* its snapshot had
MiddleDeletionKeepsTrees ==
    \A k \in DOMAIN repo.commits :
        (DeletesMiddle(k) /\ Len(repo'.commits) = Len(repo.commits) - 1) =>
            \A j \in (k + 1)..Len(repo.commits) :
                repo'.commits[j - 1].tree = repo.commits[j].tree

\* C13: after delete_backup of a middle commit every surviving newer backup
\* holds the same files with the same contents as its snapshot held before
\* the deletion; what the deleted commit introduced and later commits did
\* not touch is still in the newer snapshots.
DeleteMiddleKeepsSnapshots == [][MiddleDeletionKeepsTrees]_vars

----------------------------------------------------------------------------
(* is_protected applied to reference paths, as TestIsProtected applies it. *)

MaxSegments == 4

PathSegments ==
    { "sys", "meltingplot", "machine-override", "machine-override.g",
      "dsf-config-override.g", "some-file.g", "my-override-settings.g",
      "other-file.g" }

RECURSIVE PathsOfLen(_)
PathsOfLen(n) ==
    IF n = 0 THEN {<<>>}
    ELSE {<<s>> \o p : s \in PathSegments, p \in PathsOfLen(n - 1)}

RefPaths == UNION {PathsOfLen(n) : n \in 1..MaxSegments}

InitProtect ==
    /\ \E p \in RefPaths : pe = [phase |-> "path", path |-> p, protected |-> FALSE]
    /\ NoManager

\* protected = is_protected(path)
Classify ==
    /\ pe.phase = "path"
    /\ pe' = [pe EXCEPT !.phase = "classified", !.protected = is_protected(pe.path)]
    /\ UNCHANGED orch

NextProtect == Classify

SpecProtect == InitProtect /\ [][NextProtect]_vars

\* a configured protected path, a path under the protected directory, or
\* the protected directory's name with the file suffix
ListedProtected(p) ==
    \/ p \in PROTECTED_FILES
    \/ HasPrefix(p, <<"sys", "meltingplot", "machine-override">>)
    \/ p = <<"sys", "meltingplot", "machine-override.g">>

\* C14: is_protected(p) is true exactly when p is one of the configured
\* protected paths or lies under the protected directory prefix
\* (machine-override, machine-override.g, machine-override/some-file.g,
\* dsf-config-override.g), and false for every other path.
ProtectedClassification ==
    pe.phase = "classified" => (pe.protected <=> ListedProtected(pe.path))

----------------------------------------------------------------------------
(* find_closest_branch called on its own, as TestFindClosestBranch calls   *)
(* it, on the branch lists of several remotes.                             *)

RemoteBranches ==
    { <<"3">>, <<"3", ".", "5">>, <<"3", ".", "5", ".", "0">>,
      <<"3", ".", "5", ".", "1">>, BranchMain, BranchMaster,
      <<"d", "e", "v">>, <<"3", ".", "5", ".", "1", "0">> }

Versions ==
    { <<"3", ".", "5", ".", "1">>, <<"3", ".", "5", ".", "2">>, <<"3", ".", "5">>,
      <<"9", ".", "9", ".", "9">>, <<"3", ".", "5", ".", "1", ".">>,
      <<"3", ".", ".", "5">>, <<"3", ".", "5", ".", "1", "1">>,
      BranchMain, <<"m", "a", "i", "n", ".", "1">>, <<>> }

InitBranch ==
    /\ \E S \in SUBSET RemoteBranches, v \in Versions :
          pe = [phase |-> "version", branches |-> sorted(S), version |-> v,
                branch |-> NoBranch, exact |-> FALSE, none |-> FALSE]
    /\ NoManager

\* branch, exact = find_closest_branch(repo_path, version)
FindClosest ==
    /\ pe.phase = "version"
    /\ \E r \in {find_closest_branch(pe.branches, pe.version)} :
          pe' = [pe EXCEPT !.phase = "resolved", !.branch = r.branch,
                           !.exact = r.exact, !.none = r.none]
    /\ UNCHANGED orch

NextBranch == FindClosest

SpecBranch == InitBranch /\ [][NextBranch]_vars

\* the branches that are v cut before one of its dots
DotPrefixes(v, B) ==
    { SubSeq(v, 1, n - 1) : n \in {m \in DOMAIN v : v[m] = "."} } \cap B

Longest(S) == CHOOSE c \in S : \A d \in S : Len(d) <= Len(c)

Least(S) == CHOOSE c \in S : \A d \in S \ {c} : str_lt(c, d)

\* the branch the fallback chain names for v
Fallback(v, B) ==
    IF v \in B THEN v
    ELSE IF DotPrefixes(v, B) # {} THEN Longest(DotPrefixes(v, B))
    ELSE IF BranchMain \in B THEN BranchMain
    ELSE IF BranchMaster \in B THEN BranchMaster
    ELSE Least(B)

BranchSet == {pe.branches[k] : k \in DOMAIN pe.branches}

\* C15: find_closest_branch returns (None, False) iff the branch list is
\* empty; otherwise (v, True) if v is a branch, else the longest proper
\* dot-separated prefix of v that is a branch, else main, else master, else
\* the lexicographically first branch, each with exact = False; the branch
\* returned is a member of the list and exact is true only when it equals v.
BranchResolution ==
    pe.phase = "resolved" =>
        /\ pe.none <=> pe.branches = <<>>
        /\ pe.none => pe.branch = NoBranch /\ ~pe.exact
        /\ ~pe.none =>
              /\ pe.branch = Fallback(pe.version, BranchSet)
              /\ pe.branch \in BranchSet
              /\ pe.exact <=> pe.branch = pe.version

BranchResolutionWitness ==
    /\ pe.phase = "resolved"
    /\ pe.version = <<"3", ".", "5", ".", "2">>
    /\ BranchSet = {<<"3">>, <<"3", ".", "5">>, <<"3", ".", "5", ".", "0">>, BranchMain}
    /\ pe.branch = <<"3", ".", "5">>
    /\ ~pe.exact

----------------------------------------------------------------------------
(* Applying the whole reference.                                           *)

\* the answer diff_all gives on the printer as this step leaves it
DiffAfter == diff_all(cfg, ref, [fs |-> fs', repo |-> repo', log |-> <<>>, exc |-> NoExc]).res.diff

\* apply_all on the synced checkout succeeded: what it reports as applied
\* reads back as the reference has it, and diff_all finds nothing to change
ApplyAllThenDiff ==
    (res = NoRes /\ res'.op = "apply_all" /\ res'.status = "ok") =>
        /\ ref.cloned
        /\ \A k \in DOMAIN res'.applied :
              read_printer_file(cfg, fs', ref_to_printer_path(cfg.dir_map, res'.applied[k]))
                  = read_reference_file(ref, res'.applied[k])
        /\ \A k \in DOMAIN DiffAfter : DiffAfter[k].status = "unchanged"
        /\ {DiffAfter[k].file : k \in DOMAIN DiffAfter}
               = {res'.applied[k] : k \in DOMAIN res'.applied}

\* C16: after a successful sync and a successful apply_all every file
\* reported as applied has the reference content on the printer, and a
\* diff_all that follows with no change in between reports every file it
\* lists as unchanged.
ApplyThenDiffConverges == [][ApplyAllThenDiff]_vars

\* apply_all has rewritten sys/config.g on a synced checkout, and diff_all
\* now lists it as unchanged
ApplyThenDiffConvergesWitness ==
    /\ res.op = "apply_all" /\ res.status = "ok"
    /\ ref.cloned /\ ref.branch = Branch35
    /\ \E k \in DOMAIN res.applied : res.applied[k] = ConfigFile
    /\ \E k \in DOMAIN res.log :
          res.log[k].kind = "write" /\ res.log[k].old = FactoryText
    /\ \E k \in DOMAIN diff_all(cfg, ref, Start).res.diff :
          /\ diff_all(cfg, ref, Start).res.diff[k].file = ConfigFile
          /\ diff_all(cfg, ref, Start).res.diff[k].status = "unchanged"

----------------------------------------------------------------------------
(* Backups on a printer whose directories are also removed from outside:   *)
(* a folder of macros deleted in the web interface, a wiped sys.           *)

MacroFile == <<"macros", "print_start.g">>

InitBackups ==
    /\ Idle
    /\ cfg = ConfigManager(DEFAULT_DIRECTORY_MAP, DEFAULT_RESOLVED_DIRS)
    /\ ref = Cloned([p \in ClientPaths |-> ReferenceText])
    /\ fs = InitialFs(PrinterFiles \cup {SdCard \o MacroFile})
    /\ repo = EmptyRepo
    /\ res = NoRes
    /\ edits = 0

\* shutil.rmtree(d) from outside the plugin
rmtree(files, d) ==
    [files |-> [f \in {g \in DOMAIN files.files : ~HasPrefix(g, d)} |-> files.files[f]],
     dirs  |-> {e \in files.dirs : e # d /\ ~HasPrefix(e, d)}]

RemovedDirs == {SdCard \o <<"sys">>, SdCard \o <<"macros">>}

\* a directory of the printer is removed from outside the plugin
RemoveDirectory ==
    /\ res = NoRes
    /\ edits < MaxEdits
    /\ edits' = edits + 1
    /\ \E d \in RemovedDirs :
          /\ isdir(fs, d)
          /\ fs' = rmtree(fs, d)
    /\ UNCHANGED <<pe, cfg, ref, repo, res>>

NextBackups ==
    \/ ApplyAll
    \/ ApplyFile
    \/ ManualBackup
    \/ RestoreBackup
    \/ UserEdit
    \/ RemoveDirectory
    \/ Respond

SpecBackups == InitBackups /\ [][NextBackups]_vars

\* the files below the tracked directories, by their path in the worktree
TrackedTree(files) ==
    [r \in {q \in worktree_files(files, cfg.worktree) :
              \E k \in DOMAIN cfg.backup_paths : HasPrefix(q, cfg.backup_paths[k])} |->
        files.files[cfg.worktree \o r]]

\* the first thing a bracketed request does is a normal backup: one commit
\* more when the tracked directories differ from the latest commit, none
\* when they do not
NormalBackupStep ==
    (res = NoRes /\ res'.op \in {"apply_all", "apply_file", "apply_hunks", "restore_backup"}
       /\ res'.log # <<>> /\ cfg.worktree # NoWorktree) =>
        res'.log[1].commits =
            Len(repo.commits) + (IF TrackedTree(fs) # head_tree(repo) THEN 1 ELSE 0)

\* a manual backup makes one commit, tagged [full]
ManualBackupStep ==
    (res = NoRes /\ res'.op = "create_manual_backup" /\ res'.status = "ok") =>
        /\ Len(repo'.commits) = Len(repo.commits) + 1
        /\ SubSeq(repo'.commits, 1, Len(repo.commits)) = repo.commits
        /\ \E i \in DOMAIN repo'.commits[Len(repo'.commits)].message :
              repo'.commits[Len(repo'.commits)].message[i] = " [full]"

\* C17: a normal backup adds no commit when the tracked directories are
\* unchanged since the latest backup commit and exactly one when they
\* changed; a manual backup always adds exactly one commit, even with no
\* change, and its stored message carries the [full] tag.
NormalAndFullBackups == [][NormalBackupStep /\ ManualBackupStep]_vars

\* the commits this step appended hold files of tracked directories only,
\* and of those that were on disk during the request
AppendedAllowed ==
    (/\ Len(repo'.commits) > Len(repo.commits)
     /\ SubSeq(repo'.commits, 1, Len(repo.commits)) = repo.commits) =>
        \A c \in (Len(repo.commits) + 1)..Len(repo'.commits) :
            \A r \in DOMAIN repo'.commits[c].tree :
                \E k \in DOMAIN cfg.backup_paths :
                    /\ HasPrefix(r, cfg.backup_paths[k])
                    /\ \/ isdir(fs, cfg.worktree \o cfg.backup_paths[k])
                       \/ isdir(fs', cfg.worktree \o cfg.backup_paths[k])

\* C18: every file of every backup commit lies under one of the tracked
\* directories (sys, macros, filaments) that was on disk when the backup
\* was taken; files of other directories such as gcodes are in no backup,
\* not even a manual full one.
BackupAllowList == [][AppendedAllowed]_vars

----------------------------------------------------------------------------
(* A write that fails in the middle of apply_all.                          *)

\* the reference files apply_all writes, in its order
Written ==
    SelectSeq(list_files(ref),
              LAMBDA p : /\ ref_to_printer_path(cfg.dir_map, p) # NoPath
                         /\ ~is_protected(p)
                         /\ read_reference_file(ref, p) # NoContent)

FsPath(ref_path) ==
    printer_to_fs_path(cfg.resolved_dirs, ref_to_printer_path(cfg.dir_map, ref_path))

\* _write_printer_file raises for this reference file
WriteFails(ref_path) == FsPath(ref_path) = NoPath \/ ~can_write(fs, FsPath(ref_path))

Failing == {k \in DOMAIN Written : WriteFails(Written[k])}

BackupEvents(log) == {k \in DOMAIN log : log[k].kind = "backup"}

\* apply_all meets a write that fails: the exception leaves apply_all, the
\* files before the failing one have the reference content, the failing
\* one and those after it are as they were, and the only backup attempt is
\* the one before the first write
FailedBulk ==
    (res = NoRes /\ res'.op = "apply_all" /\ ref.cloned /\ Failing # {}) =>
        /\ res'.status = "raised"
        /\ \A k \in DOMAIN Written :
              IF k < First(Failing)
              THEN open_read(fs', FsPath(Written[k])) = read_reference_file(ref, Written[k])
              ELSE FsPath(Written[k]) # NoPath =>
                      open_read(fs', FsPath(Written[k])) = open_read(fs, FsPath(Written[k]))
        /\ BackupEvents(res'.log) = {1}
        /\ Len(repo'.commits) = res'.log[1].commits

\* C19: when writing a file fails during apply_all the error propagates out
\* of apply_all at once; the files written before the failing one keep the
\* reference content, no file after the failing one is written, and no
\* backup is attempted after the failure.
MidBulkFailure == [][FailedBulk]_vars

\* apply_all has written gcodes/job.g and then failed on sys/config.g
MidBulkFailureWitness ==
    /\ res.op = "apply_all" /\ res.status = "raised"
    /\ \E k \in DOMAIN res.log :
          /\ res.log[k].kind = "write"
          /\ res.log[k].old = FactoryText
          /\ fs.files[res.log[k].path] = ReferenceText
    /\ open_read(fs, SdCard \o ConfigFile) = FactoryText
    /\ read_reference_file(ref, ConfigFile) = ReferenceText

----------------------------------------------------------------------------
(* The HTTP surface of meltingplot-config-daemon.py: the status a handler  *)
(* answers the result of the manager with.                                 *)

\* handle_delete_backup catches the RuntimeError of the manager
CaughtByHandler(result) == result.op = "delete_backup" /\ result.error # <<"OSError">>

\* the response of a handler: json_response, error_response, or the except
\* branch of _make_async_handler
http_response(result) ==
    IF result.status = "raised" /\ ~CaughtByHandler(result)
    THEN [status |-> 500, error |-> <<"Internal server error">>]
    ELSE IF result.status \in {"raised", "error"}
    THEN [status |-> 400, error |-> result.error]
    ELSE [status |-> 200, error |-> <<>>]

\* the hunk indices the diff of the file offers
OfferedIndices(ref_path) ==
    {h.index : h \in
        {compute_hunks(open_read(fs, FsPath(ref_path)),
                       read_reference_file(ref, ref_path))[k] :
            k \in DOMAIN compute_hunks(open_read(fs, FsPath(ref_path)),
                                       read_reference_file(ref, ref_path))}}

\* the request this step serves carries a user or configuration error: a
\* repository URL that is missing or no repository, a path that cannot be
\* resolved, a protected path, a file that is not in the reference or not
\* on the printer, hunk indices the diff does not offer
UserError ==
    \/ res'.op = "sync" /\ ~ref'.cloned
    \/ res'.op = "apply_all" /\ ref.cloned
         /\ \E k \in DOMAIN Written : FsPath(Written[k]) = NoPath
    \/ res'.op \in {"apply_file", "apply_hunks"}
         /\ \/ is_protected(res'.ref_path)
            \/ ref_to_printer_path(cfg.dir_map, res'.ref_path) = NoPath
            \/ FsPath(res'.ref_path) = NoPath
            \/ read_reference_file(ref, res'.ref_path) = NoContent
    \/ res'.op = "apply_hunks"
         /\ ref_to_printer_path(cfg.dir_map, res'.ref_path) # NoPath
         /\ FsPath(res'.ref_path) # NoPath
         /\ read_reference_file(ref, res'.ref_path) # NoContent
         /\ \/ open_read(fs, FsPath(res'.ref_path)) = NoContent
            \/ \A k \in DOMAIN res'.indices :
                  res'.indices[k] \notin OfferedIndices(res'.ref_path)

UserErrorStep ==
    (res = NoRes /\ res' # NoRes /\ UserError) =>
        /\ res'.status = "error"
        /\ res'.error # <<>>
        /\ http_response(res').status \in 400..499

\* C20: every user or configuration error (bad repository URL, unresolvable
\* path, protected path, unknown hunk indices, file not found in the
\* reference or on the printer) comes out of the orchestrator as an error
\* result with a message, not as a raised exception, and the HTTP handler
\* answers it with a 4xx status, never with the 500 "Internal server error".
UserErrorsAnswered4xx == [][UserErrorStep]_vars

----------------------------------------------------------------------------
(* The endpoints served as main() registers them: each endpoint has its    *)
(* own handler, run in its own background thread, on the one ConfigManager *)
(* they share.  A POST applyHunks?file=sys/config.g and a POST             *)
(* apply?file=sys/config.g arrive; each handler goes through its reads,    *)
(* its backups and its write, and nothing orders the steps of the two.     *)

ThreadRequests == {<<0>>, <<5>>}

NoThread == [pc |-> "idle", indices |-> <<>>, printer_content |-> NoContent,
             selected |-> <<>>, applied |-> <<>>]

InitThreads ==
    /\ \E hunk_indices \in ThreadRequests :
          pe = [hunks |-> [NoThread EXCEPT !.indices = hunk_indices], apply |-> NoThread]
    /\ cfg = ConfigManager(DEFAULT_DIRECTORY_MAP, DEFAULT_RESOLVED_DIRS)
    /\ \E ab \in EditedPairs :
          /\ fs = open_write(InitialFs(PrinterFiles), SdCard \o ConfigFile, ab[1])
          /\ ref = Cloned([p \in ClientPaths |->
                              IF p = ConfigFile THEN ab[2] ELSE ReferenceText])
    /\ repo = EmptyRepo
    /\ res = NoRes
    /\ edits = 0

ConfigPrinterPath == ref_to_printer_path(cfg.dir_map, ConfigFile)

\* apply_hunks: the two reads, the hunks, the selection; a request with no
\* valid hunk ends here
HunksRead ==
    /\ pe.hunks.pc = "idle"
    /\ \E content \in {read_printer_file(cfg, fs, ConfigPrinterPath)} :
       \E selected \in {select_hunks(compute_hunks(content,
                                                   read_reference_file(ref, ConfigFile)),
                                     pe.hunks.indices)} :
          pe' = [pe EXCEPT !.hunks.pc = IF selected = <<>> THEN "done" ELSE "read",
                           !.hunks.printer_content = content,
                           !.hunks.selected = selected]
    /\ UNCHANGED orch

\* apply_hunks: self._create_backup("Pre-update backup for ... (partial)")
HunksBackup ==
    /\ pe.hunks.pc = "read"
    /\ HashesLeft(1)
    /\ repo' = create_backup(cfg, Start,
                   <<"Pre-update backup for ">> \o path_str(ConfigFile) \o <<" (partial)">>,
                   FALSE).repo
    /\ pe' = [pe EXCEPT !.hunks.pc = "backed"]
    /\ UNCHANGED <<cfg, ref, fs, res, edits>>

\* apply_hunks: the loop over the selected hunks on the content read at the
\* start, and the write
HunksWrite ==
    /\ pe.hunks.pc = "backed"
    /\ \E done \in {apply_loop(splitlines(pe.hunks.printer_content), pe.hunks.selected,
                               0, <<>>, <<>>, <<>>)} :
          /\ fs' = write_printer_file(cfg, Start, ConfigPrinterPath, join(done.lines)).fs
          /\ pe' = [pe EXCEPT !.hunks.pc = "written", !.hunks.applied = done.applied]
    /\ UNCHANGED <<cfg, ref, repo, res, edits>>

\* apply_hunks: self._create_backup("Applied n hunk(s) to ...")
HunksFinish ==
    /\ pe.hunks.pc = "written"
    /\ HashesLeft(1)
    /\ repo' = create_backup(cfg, Start,
                   <<"Applied ">> \o FormatInt(Len(pe.hunks.applied)) \o <<" hunk(s) to ">>
                   \o path_str(ConfigFile), FALSE).repo
    /\ pe' = [pe EXCEPT !.hunks.pc = "done"]
    /\ UNCHANGED <<cfg, ref, fs, res, edits>>

\* apply_file: self._create_backup("Pre-update backup for ...")
ApplyBackup ==
    /\ pe.apply.pc = "idle"
    /\ HashesLeft(1)
    /\ repo' = create_backup(cfg, Start,
                   <<"Pre-update backup for ">> \o path_str(ConfigFile), FALSE).repo
    /\ pe' = [pe EXCEPT !.apply.pc = "backed"]
    /\ UNCHANGED <<cfg, ref, fs, res, edits>>

\* apply_file: self._write_printer_file(printer_path, ref_content)
ApplyWrite ==
    /\ pe.apply.pc = "backed"
    /\ fs' = write_printer_file(cfg, Start, ConfigPrinterPath,
                                read_reference_file(ref, ConfigFile)).fs
    /\ pe' = [pe EXCEPT !.apply.pc = "written"]
    /\ UNCHANGED <<cfg, ref, repo, res, edits>>

\* apply_file: self._create_backup("Applied ...")
ApplyFinish ==
    /\ pe.apply.pc = "written"
    /\ HashesLeft(1)
    /\ repo' = create_backup(cfg, Start, <<"Applied ">> \o path_str(ConfigFile), FALSE).repo
    /\ pe' = [pe EXCEPT !.apply.pc = "done"]
    /\ UNCHANGED <<cfg, ref, fs, res, edits>>

NextThreads ==
    \/ HunksRead
    \/ HunksBackup
    \/ HunksWrite
    \/ HunksFinish
    \/ ApplyBackup
    \/ ApplyWrite
    \/ ApplyFinish

SpecThreads == InitThreads /\ [][NextThreads]_vars

\* the handler is between its first and its last step
Underway(thread) == thread.pc \in {"read", "backed", "written"}

\* C21: each inbound operation runs to completion before the next is
\* considered, so the steps of two requests never interleave: the read,
\* patch, write-back and backup steps of an apply_hunks request are
\* complete before a step of another mutating request on the same file or
\* repository starts.
SequentialDispatch == ~(Underway(pe.hunks) /\ Underway(pe.apply))

----------------------------------------------------------------------------
(* GET diff?file=... and GET diff on a printer whose sys/config.g is       *)
(* absent or holds any small or long text, against a reference whose       *)
(* sys/config.g holds any such text.                                       *)

\* what sys/config.g holds on the printer (NoContent: the file is absent)
\* and in the reference
\* the base text against a copy edited at both ends: two hunks
TwoHunkPairs ==
    { <<ChopNL(join(BaseLines), ca),
        ChopNL(join(EditLines(BaseLines,
                              [k \in EditPositions |->
                                  IF k \in {1, NumLines} THEN op ELSE "keep"], 1)), cb)>> :
        op \in EditOps, ca \in BOOLEAN, cb \in BOOLEAN }

DiffPairs == ((SmallTexts \cup {NoContent}) \X SmallTexts) \cup TwoHunkPairs

InitDiff ==
    /\ Idle
    /\ cfg = ConfigManager(DEFAULT_DIRECTORY_MAP, DEFAULT_RESOLVED_DIRS)
    /\ \E ab \in DiffPairs :
          /\ fs = IF ab[1] = NoContent
                  THEN InitialFs(PrinterFiles \ {SdCard \o ConfigFile})
                  ELSE open_write(InitialFs(PrinterFiles), SdCard \o ConfigFile, ab[1])
          /\ ref = Cloned([p \in ClientPaths |->
                              IF p = ConfigFile THEN ab[2] ELSE ReferenceText])
    /\ repo = EmptyRepo
    /\ res = NoRes
    /\ edits = 0

\* GET diff?file=<path>
DiffFile == \E ref_path \in ClientPaths : Serve(diff_file(cfg, ref, Start, ref_path))

NextDiff == DiffFile \/ DiffAll \/ Respond

SpecDiff == InitDiff /\ [][NextDiff]_vars

\* sys/config.g as the printer and the reference hold it
PrinterConfig == read_printer_file(cfg, fs, ConfigPrinterPath)
ReferenceConfig == read_reference_file(ref, ConfigFile)

\* the entries of the answer that are about sys/config.g
ConfigEntries == {k \in DOMAIN res.diff : res.diff[k].file = ConfigFile}

\* the answer is one of diff_file or diff_all, and both files are there
Compared ==
    /\ res.op \in {"diff_file", "diff_all"}
    /\ res.status = "ok"
    /\ PrinterConfig # NoContent
    /\ ReferenceConfig # NoContent

\* C22: _compute_hunks(path, A, A) is empty for every text A; diff_file and
\* diff_all report "unchanged" with an empty hunk list (and diff_file an
\* empty unified diff) exactly when the printer file and the reference
\* file have identical content, and "modified" with a non-empty hunk list
\* whenever the contents differ.
UnchangedIffIdentical ==
    /\ ReferenceConfig # NoContent => compute_hunks(ReferenceConfig, ReferenceConfig) = <<>>
    /\ PrinterConfig # NoContent => compute_hunks(PrinterConfig, PrinterConfig) = <<>>
    /\ Compared =>
         \A k \in ConfigEntries :
            LET e == res.diff[k]
            IN  /\ (e.status = "unchanged") <=> (PrinterConfig = ReferenceConfig)
                /\ (e.hunks = <<>>) <=> (PrinterConfig = ReferenceConfig)
                /\ res.op = "diff_file" =>
                      ((e.unifiedDiff = <<>>) <=> (PrinterConfig = ReferenceConfig))
                /\ PrinterConfig # ReferenceConfig => e.status = "modified"

\* both answers are reached: files that differ only in the last line break,
\* and identical non-empty files
UnchangedIffIdenticalWitness ==
    /\ Compared
    /\ ConfigEntries # {}
    /\ res.op = "diff_file"
    /\ PrinterConfig # ReferenceConfig
    /\ rstrip_nl(PrinterConfig) = rstrip_nl(ReferenceConfig)
    /\ \A k \in ConfigEntries : res.diff[k].status = "modified"

\* C24: when the file is in the reference repository and not on the
\* printer, diff_file returns status "missing" with an empty hunk list and
\* an empty unifiedDiff string.
MissingHasNoHunks ==
    (res.op = "diff_file" /\ res.status = "ok" /\ res.ref_path = ConfigFile
     /\ PrinterConfig = NoContent /\ ReferenceConfig # NoContent)
    => /\ res.diff[1].status = "missing"
       /\ res.diff[1].hunks = <<>>
       /\ res.diff[1].unifiedDiff = <<>>

----------------------------------------------------------------------------
(* Requests for hunks the diff does not have.                              *)

\* the indices of a list of the result
Indices(list) == {list[k] : k \in DOMAIN list}

\* C23: apply_hunks ignores the requested indices that the freshly computed
\* hunk list does not have; when it has none of them (an empty request
\* included) the answer is the error "No valid hunks selected" with empty
\* applied and failed lists, no backup is made and the printer file is not
\* written.
NoValidHunks ==
    [][(res = NoRes /\ res'.op = "apply_hunks" /\ res'.ref_path = ConfigFile) =>
         /\ res'.hunks = compute_hunks(PrinterConfig, ReferenceConfig)
         /\ IF Selected' = {}
            THEN /\ res'.status = "error"
                 /\ res'.error = <<"No valid hunks selected">>
                 /\ res'.applied = <<>>
                 /\ res'.failed = <<>>
                 /\ repo' = repo
                 /\ fs' = fs
            ELSE /\ res'.status = "ok"
                 /\ Indices(res'.applied) \cup Indices(res'.failed) = Selected']_vars

\* a request for hunk 5 of a file whose diff has hunks, but no hunk 5
NoValidHunksWitness ==
    /\ res.op = "apply_hunks"
    /\ res.hunks # <<>>
    /\ Requested # {}
    /\ Selected = {}
    /\ res.status = "error"
    /\ repo.commits = <<>>

----------------------------------------------------------------------------
(* Which commits delete_backup takes out.                                  *)

\* the step is a delete_backup that succeeded
Deletes ==
    /\ res = NoRes
    /\ res'.op = "delete_backup"
    /\ res'.status = "ok"

\* C25: delete_backup succeeds only for a commit that is the tip or the root
\* of the linear history; a commit strictly between them is never removed
\* by delete_backup.
DeletableAtEndsOnly ==
    [][Deletes => commit_pos(repo, res'.hash) \in {1, Len(repo.commits)}]_vars

\* C25 as the code has it: delete_backup succeeds only for a commit that has
\* a parent, the tip or one strictly between root and tip; the named commit
\* is gone afterwards and the root is never removed: it stays the first
\* commit of the history.
DeletableAboveRootOnly ==
    [][Deletes =>
         /\ commit_pos(repo, res'.hash) \in 2..Len(repo.commits)
         /\ commit_pos(repo', res'.hash) = 0
         /\ repo'.commits # <<>>
         /\ repo'.commits[1] = repo.commits[1]]_vars

\* a commit between root and tip was deleted: the root is older than the
\* deleted hash and a commit put back on top of it is newer
DeletableAboveRootOnlyWitness ==
    /\ res.op = "delete_backup"
    /\ res.status = "ok"
    /\ repo.commits # <<>>
    /\ repo.commits[1].hash < res.hash
    /\ \E j \in DOMAIN repo.commits : repo.commits[j].hash > res.hash

\* C26: delete_backup only rewrites the backup history: after a deletion of
\* the tip and after a deletion of a middle commit alike, every file of the
\* backup repository's working tree, the printer's configuration files,
\* exists as before and has the content it had before the call.
DeleteKeepsPrinterFiles == [][Deletes => fs' = fs]_vars

----------------------------------------------------------------------------
(* The settings and the sync that reads them: two reference repositories,  *)
(* a printer that has cloned none or one of them, POST settings changing   *)
(* the URL and the branch override, POST sync.                             *)

OtherUrl == <<"https://github.com/Meltingplot/other.git">>
OtherText == <<"c", NL>>
Branch36 == <<"3", ".", "6">>

\* the second repository: another branch list, other contents
OtherReference ==
    [reachable |-> TRUE, branches |-> {Branch35, Branch36}, head |-> Branch36,
     files |-> Cloned([p \in ClientPaths |-> OtherText]).files,
     order |-> ReferenceOrder]

\* what git finds behind a URL
Remote(url) ==
    IF url = ReferenceUrl THEN Reference
    ELSE IF url = OtherUrl THEN OtherReference
    ELSE NoRemote

SettingsUrls == {<<>>, NoRepoUrl, ReferenceUrl, OtherUrl}
SettingsOverrides == {<<>>, Branch35, Branch36}
FirmwareVersions == {<<>>, <<"3", ".", "5", ".", "2">>}

\* pe.data is the plugin data of the object model, pe.origin the URL the
\* reference checkout was cloned from
InitSettings ==
    /\ \E url \in SettingsUrls, version \in FirmwareVersions :
          pe = [data   |-> [referenceRepoUrl        |-> url,
                            detectedFirmwareVersion |-> version,
                            firmwareBranchOverride  |-> <<>>,
                            activeBranch            |-> NoBranch],
                origin |-> <<>>]
    /\ cfg = ConfigManager(DEFAULT_DIRECTORY_MAP, DEFAULT_RESOLVED_DIRS)
    /\ ref = NotCloned
    /\ fs = InitialFs(PrinterFiles)
    /\ repo = EmptyRepo
    /\ res = NoRes
    /\ edits = 0

\* handle_settings: POST settings with referenceRepoUrl
SettingsUrl ==
    /\ res = NoRes
    /\ \E url \in SettingsUrls : pe' = [pe EXCEPT !.data.referenceRepoUrl = url]
    /\ res' = Result("settings", NoPath, <<>>, 0)
    /\ UNCHANGED <<cfg, ref, fs, repo, edits>>

\* handle_settings: POST settings with firmwareBranchOverride
SettingsOverride ==
    /\ res = NoRes
    /\ \E override \in SettingsOverrides :
          pe' = [pe EXCEPT !.data.firmwareBranchOverride = override]
    /\ res' = Result("settings", NoPath, <<>>, 0)
    /\ UNCHANGED <<cfg, ref, fs, repo, edits>>

\* handle_sync: the plugin data is read, manager.sync runs, activeBranch is
\* set when it succeeded
SyncConfigured ==
    /\ res = NoRes
    /\ \E out \in {sync(ref, Remote(pe.origin), Remote(pe.data.referenceRepoUrl),
                        pe.data.referenceRepoUrl, pe.data.detectedFirmwareVersion,
                        pe.data.firmwareBranchOverride)} :
          /\ ref' = out.ref
          /\ res' = out.res
          /\ pe' = [pe EXCEPT
                      !.origin = IF ~ref.cloned /\ out.ref.cloned
                                 THEN pe.data.referenceRepoUrl ELSE @,
                      !.data.activeBranch = IF out.res.status = "ok"
                                            THEN out.res.branch ELSE @]
    /\ UNCHANGED <<cfg, fs, repo, edits>>

NextSettings == SettingsUrl \/ SettingsOverride \/ SyncConfigured \/ DiffAll \/ Respond

SpecSettings == InitSettings /\ [][NextSettings]_vars

\* C27: when the configured referenceRepoUrl has been changed to another
\* repository and a sync with it returns success, the local reference
\* checkout, its branch list and the tracked file contents that diff and
\* apply use, comes from that repository and not from the one cloned
\* before.
SyncFollowsUrl ==
    [][(/\ res = NoRes
        /\ Remote(pe.data.referenceRepoUrl).reachable
        /\ res'.op = "sync"
        /\ res'.status = "ok") =>
         /\ ref'.cloned
         /\ ref'.files = Remote(pe.data.referenceRepoUrl).files
         /\ res'.branches = sorted(Remote(pe.data.referenceRepoUrl).branches)]_vars

----------------------------------------------------------------------------
(* Reference paths with ".." segments passed to apply?file= and to         *)
(* applyHunks?file=.                                                       *)

\* the paths of the requests: tracked files by their own path and by paths
\* that climb out of their first folder or stay below it
ClimbingPaths ==
    { ConfigFile, JobFile,
      <<"sys", "..", "gcodes", "job.g">>,
      <<"gcodes", "..", "sys", "config.g">>,
      <<"sys", "..", "sys", "config.g">>,
      <<"sys", "meltingplot", "..", "config.g">> }

InitPaths ==
    /\ Idle
    /\ cfg = ConfigManager(DEFAULT_DIRECTORY_MAP, DEFAULT_RESOLVED_DIRS)
    /\ ref = Cloned([p \in ClientPaths |-> ReferenceText])
    /\ \E a \in EditedTexts, b \in EditedTexts :
          fs = open_write(open_write(InitialFs(PrinterFiles), SdCard \o ConfigFile, a),
                          SdCard \o JobFile, b)
    /\ repo = EmptyRepo
    /\ res = NoRes
    /\ edits = 0

\* POST apply?file=<path>
ApplyPath ==
    /\ HashesLeft(2)
    /\ \E ref_path \in ClimbingPaths : Serve(apply_file(cfg, ref, Start, ref_path))

\* POST applyHunks?file=<path>
ApplyPathHunks == ApplyHunksOf(ClimbingPaths, FewRequests)

NextPaths == ApplyPath \/ ApplyPathHunks \/ UserEdit \/ Respond

SpecPaths == InitPaths /\ [][NextPaths]_vars

\* the files that the step created or gave another content
Rewritten ==
    {f \in DOMAIN fs'.files : f \notin DOMAIN fs.files \/ fs'.files[f] # fs.files[f]}

\* the real directory the resolved directory map has for a folder of the
\* reference repository
ResolvedDir(folder) ==
    resolved_dirs_get(cfg.resolved_dirs, dir_map_get(cfg.dir_map, <<folder>>))

\* C28: for every reference path string a client can pass to apply_file or
\* apply_hunks, strings with ".." segments included, every file the
\* operation writes lies inside the real directory that the resolved
\* directory map assigns to the top-level folder of the path (and the
\* template read lies inside the reference repository).
PathContainment ==
    [][(res = NoRes /\ res'.op \in {"apply_file", "apply_hunks"}) =>
         \A f \in Rewritten : HasPrefix(f, ResolvedDir(res'.ref_path[1]))]_vars

----------------------------------------------------------------------------
(* Two hunks of one diff_file answer applied by two requests, one after    *)
(* the other, and by one request.                                          *)

\* the base text against copies edited in up to four places
ComposePairs ==
    { <<join(BaseLines), join(EditLines(BaseLines, ed, 1))>> :
        ed \in [EditPositions -> {"keep", "replace", "insert"}] }

\* the largest hunk index of a request
MaxIndex == 3

\* pe.i < pe.j are the indices of the two requests, pe.a is sys/config.g as
\* the printer held it when diff_file was asked
InitCompose ==
    /\ cfg = ConfigManager(DEFAULT_DIRECTORY_MAP, DEFAULT_RESOLVED_DIRS)
    /\ \E ab \in ComposePairs :
          /\ \E i \in 0..MaxIndex, j \in 0..MaxIndex :
                i < j /\ pe = [stage |-> 0, i |-> i, j |-> j, a |-> ab[1]]
          /\ fs = open_write(InitialFs(PrinterFiles), SdCard \o ConfigFile, ab[1])
          /\ ref = Cloned([p \in ClientPaths |->
                              IF p = ConfigFile THEN ab[2] ELSE ReferenceText])
    /\ repo = EmptyRepo
    /\ res = NoRes
    /\ edits = 0

\* POST applyHunks?file=sys/config.g with {"hunks": [i]}, and then with
\* {"hunks": [j]}
ApplyOneHunk ==
    /\ pe.stage < 2
    /\ res = NoRes
    /\ HashesLeft(2)
    /\ pe' = [pe EXCEPT !.stage = @ + 1]
    /\ \E out \in {apply_hunks(cfg, ref, Start, ConfigFile,
                               <<IF pe.stage = 0 THEN pe.i ELSE pe.j>>)} :
          /\ fs' = out.fs
          /\ repo' = out.repo
          /\ res' = out.res
    /\ UNCHANGED <<cfg, ref, edits>>

NextCompose == ApplyOneHunk \/ Respond

SpecCompose == InitCompose /\ [][NextCompose]_vars

\* what apply_hunks(p, [i, j]) writes to a file that holds a: the selected
\* hunks of the diff applied to its lines
Together(a, b, i, j) ==
    join(apply_loop(splitlines(a), select_hunks(compute_hunks(a, b), <<i, j>>),
                    0, <<>>, <<>>, <<>>).lines)

\* C29: for a file whose diff_file answer lists the hunks i < j,
\* apply_hunks(p, [i]) followed by apply_hunks(p, [j]) leaves the printer
\* file as the single call apply_hunks(p, [i, j]) leaves it: an index shown
\* by diff_file denotes the same change after another hunk of that answer
\* has been applied.
SelectionsCompose ==
    (pe.stage = 2 /\ pe.j < Len(compute_hunks(pe.a, ReferenceConfig))) =>
        PrinterConfig = Together(pe.a, ReferenceConfig, pe.i, pe.j)

----------------------------------------------------------------------------
(* The failed list of apply_hunks.                                         *)

\* C30: apply_hunks never reports a failed hunk: the hunks are recomputed
\* from the printer content they are applied to, do not overlap and are
\* applied in ascending order with threaded offsets, so every selected hunk
\* passes the context verification; "failed" is empty and "applied" holds
\* exactly the requested indices that exist, for every printer content,
\* reference content and selection.
NeverFailedHunk ==
    res.op = "apply_hunks" =>
        /\ res.failed = <<>>
        /\ Indices(res.applied) = Selected
        /\ \A k \in DOMAIN res.calls : res.calls[k].success

\* two or more hunks were applied, a later one at an offset other than 0
NeverFailedHunkWitness ==
    /\ res.op = "apply_hunks"
    /\ res.status = "ok"
    /\ Len(res.applied) >= 2
    /\ \E k \in DOMAIN res.calls : res.calls[k].offset # 0

====
